---- MODULE Spec2Model ----
(***************************************************************************)
(* A model of docker/install-dynamic-plugins.py, the dynamic plugin        *)
(* installer run at container initialisation.                              *)
(*                                                                         *)
(* The module holds several sub-models over one set of variables; each     *)
(* specification drives one of them and keeps the others idle:             *)
(*   SpecLock     concurrent invocations and the lock marker file          *)
(*   SpecManifest resolution of includes and overrides (mergePlugin)       *)
(*   SpecHash     the per-entry fingerprint                                *)
(*   SpecConfig   the merge of plugin configuration fragments              *)
(*   SpecExtract  the extraction of a registry package archive             *)
(*   SpecRun      repeated reconciliation runs on one installation root    *)
(*   SpecNpm      the install of one registry or local-path package        *)
(*   SpecOci      the installs of the container-image plugins of one run   *)
(***************************************************************************)
EXTENDS Integers, Sequences, FiniteSets, TLC

None == "None"

(***************************************************************************)
(* Bounds                                                                  *)
(***************************************************************************)
\* Number of concurrent invocations against one installation root.
NumProcs == 3
\* Number of plugin entries over all the lists of a manifest.
MaxEntries == 3
\* Number of files in a manifest's `includes`.
MaxIncludes == 2
\* Number of fields, besides package, of the entries whose fingerprints are compared.
MaxFields == 1

Procs == 1..NumProcs

VARIABLES
  \* ---- lock sub-model: one entry per invocation of main() ----
  pc,          \* position of each invocation in main / create_lock / exit
  lock_file,   \* whether install-dynamic-plugins.lock exists
  lock_owner,  \* the invocation whose open(..., 'x') created the marker, 0 if none
  created,     \* per invocation: its create_lock has returned
  exit_cause,  \* per invocation: why it is exiting ("none" while running)
  exit_status  \* per invocation: process exit status once exited (-1 before)

VARIABLES
  \* ---- manifest sub-model: main, lines 570-615 ----
  m_sources,   \* the plugin lists in processing order: one per include, then the primary list
  m_s,         \* index of the source being read
  m_k,         \* index of the next plugin of that source
  allPlugins,  \* main's allPlugins: ordered dict package -> resolved entry
  m_phase      \* "merge" while sources remain, then "done"

VARIABLES
  \* ---- fingerprint sub-model: main, lines 617-629 ----
  h_entries,   \* two resolved entries (of two manifests), as main's loop sees them
  h_override,  \* a later source's entry for the first one's package, or <<>>
  h_phase      \* "merge", "hash1", "hash2", "decide"

VARIABLES
  \* ---- configuration sub-model: merge, maybeMergeConfig ----
  c_frags,       \* the pluginConfig values install_plugin returned, in order
  c_i,           \* how many of them main's loop has dealt with
  globalConfig,  \* main's globalConfig
  c_state,       \* "merging", "done" or "fatal"
  c_err          \* what the exception that ended the run reports

VARIABLES
  \* ---- extraction sub-model: NpmPluginInstaller._extract_npm_package ----
  x_members,     \* the members of the archive, in archive order
  x_i,           \* index of the next member
  x_dir,         \* content of the package directory: a set of things, or
                 \* {"<absent>"} while the directory does not exist
  x_archive,     \* whether the .tgz file lies in the installation root
  x_state,       \* "start", "members", "done" or "fatal"
  x_err          \* index of the member that raised, 0 if none

VARIABLES
  \* ---- run sub-model: main from line 617 on, install_plugin, installers ----
  r_manifest,           \* dynamic-plugins.yaml: whether the file exists and what
                        \* yaml.safe_load makes of it
  disk,                 \* the plugin directories of the installation root
  cfgFile,              \* app-config.dynamic-plugins.yaml
  r_pc,                 \* position of the running invocation, "idle" between runs
  r_i,                  \* index in allPlugins.values() of the plugin at hand
  plugin_path_by_hash,  \* main's snapshot dict: hash -> directory name
  r_outcome,            \* "running", or how the last run ended: "none", "completed",
                        \* "fatal", "sigterm"
  r_start,              \* the disk and the configuration file when the run began,
                        \* and whether the run before it had completed
  r_log,                \* the skip decisions taken in this run
  r_installed,          \* indices of the plugins whose install completed in this run
  r_writes              \* how often this run has written app-config.dynamic-plugins.yaml

VARIABLES
  \* ---- registry install sub-model: NpmPluginInstaller.install ----
  n_plugin,      \* the plugin being installed
  n_skip,        \* skip_integrity_check (SKIP_INTEGRITY_CHECK is "true")
  n_pc,          \* "install", "pack", "verify", "extract", "done" or "fatal"
  n_root,        \* what the installation root holds of the package: the
                 \* archive npm pack wrote, and the package directory
  n_start,       \* n_root when install was called
  n_packs,       \* how often npm pack has been run
  n_err          \* which exception ended the install

VARIABLES
  \* ---- container-image sub-model: install_plugin for image plugins ----
  o_packages,        \* the image plugins the run installs, in manifest order
  o_i,               \* index of the plugin at hand
  o_pc,              \* position in install_plugin / OciDownloader.download
  image_to_tarball,  \* the dict of the downloader of the installer at hand
  o_copies,          \* per image: how often skopeo copy has been run
  o_layer,           \* the members of the first layer of the images
  o_files,           \* extract_plugin's filesToExtract
  o_dest,            \* what lies under the installation root
  o_recorded         \* the plugin paths install_plugin wrote a hash file for

lockVars == <<pc, lock_file, lock_owner, created, exit_cause, exit_status>>
manVars == <<m_sources, m_s, m_k, allPlugins, m_phase>>
hashVars == <<h_entries, h_override, h_phase>>
cfgVars == <<c_frags, c_i, globalConfig, c_state, c_err>>
exVars == <<x_members, x_i, x_dir, x_archive, x_state, x_err>>
runVars == <<r_manifest, disk, cfgFile, r_pc, r_i, plugin_path_by_hash,
             r_outcome, r_start, r_log, r_installed, r_writes>>

npmVars == <<n_plugin, n_skip, n_pc, n_root, n_start, n_packs, n_err>>
ociVars == <<o_packages, o_i, o_pc, image_to_tarball, o_copies, o_layer, o_files,
             o_dest, o_recorded>>

vars == <<lockVars, manVars, hashVars, cfgVars, exVars, runVars, npmVars, ociVars>>

\* What an action of one sub-model leaves alone: the other sub-models.
LockFrame == UNCHANGED <<manVars, hashVars, cfgVars, exVars, runVars, npmVars, ociVars>>

ManFrame == UNCHANGED <<lockVars, hashVars, cfgVars, exVars, runVars, npmVars, ociVars>>

HashFrame == UNCHANGED <<lockVars, manVars, cfgVars, exVars, runVars, npmVars, ociVars>>

CfgFrame == UNCHANGED <<lockVars, manVars, hashVars, exVars, runVars, npmVars, ociVars>>

ExFrame == UNCHANGED <<lockVars, manVars, hashVars, cfgVars, runVars, npmVars, ociVars>>

\* The run sub-model uses allPlugins, globalConfig and the lock marker as
\* main does.
RunFrame ==
  UNCHANGED <<pc, lock_owner, created, exit_cause, exit_status, hashVars, exVars,
              m_sources, m_s, m_k, m_phase, c_frags, c_i, c_state, c_err,
              npmVars, ociVars>>

NpmFrame == UNCHANGED <<lockVars, manVars, hashVars, cfgVars, exVars, runVars, ociVars>>

OciFrame == UNCHANGED <<lockVars, manVars, hashVars, cfgVars, exVars, runVars, npmVars>>

(***************************************************************************)
(* Python values                                                           *)
(*                                                                         *)
(* A dict is insertion-ordered: a sequence of <<key, value>> pairs with    *)
(* distinct keys.  Two dicts are equal in Python when they hold the same   *)
(* keys with equal values, whatever the order (DictEq).                    *)
(***************************************************************************)
DictKeys(d) == {d[i][1] : i \in DOMAIN d}

HasKey(d, k) == \E i \in DOMAIN d : d[i][1] = k

\* d[k]
DictGet(d, k) == d[CHOOSE i \in DOMAIN d : d[i][1] = k][2]

\* d.get(k, dflt)
DictGetOr(d, k, dflt) == IF HasKey(d, k) THEN DictGet(d, k) ELSE dflt

\* d[k] = v: an existing key keeps its position, a new key goes last.
DictSet(d, k, v) ==
  IF HasKey(d, k)
    THEN [i \in DOMAIN d |-> IF d[i][1] = k THEN <<k, v>> ELSE d[i]]
    ELSE Append(d, <<k, v>>)

\* d.pop(k, None)
DictPop(d, k) == SelectSeq(d, LAMBDA kv : kv[1] # k)

\* A YAML document node: a scalar leaf or a mapping (a dict of nodes).
Leaf(x) == [t |-> "leaf", v |-> x, items |-> <<>>]

Map(kvs) == [t |-> "map", v |-> "", items |-> kvs]

IsDict(n) == n.t = "map"

\* Python's None where a node may stand.
PyNone == [t |-> "none", v |-> "", items |-> <<>>]

\* All sequences over S of length at most n.
RECURSIVE SeqsUpTo(_, _)
SeqsUpTo(S, n) ==
  IF n = 0 THEN {<<>>}
  ELSE LET shorter == SeqsUpTo(S, n - 1)
       IN  shorter \cup {Append(q, x) : q \in {r \in shorter : Len(r) = n - 1}, x \in S}

\* All dicts with at most n items whose keys and values come from vals
\* (a function from keys to the set of values each key may take).
RECURSIVE DictsUpTo(_, _)
DictsUpTo(vals, n) ==
  IF n = 0 THEN {<<>>}
  ELSE LET shorter == DictsUpTo(vals, n - 1)
           longest == {r \in shorter : Len(r) = n - 1}
           fresh   == {dk \in longest \X (DOMAIN vals) : dk[2] \notin DictKeys(dk[1])}
       IN  shorter \cup
           UNION {{Append(dk[1], <<dk[2], x>>) : x \in vals[dk[2]]} : dk \in fresh}

\* A sub-model that a specification does not drive stays in this state.
LockIdle ==
  /\ pc = <<>> /\ lock_file = FALSE /\ lock_owner = 0
  /\ created = <<>> /\ exit_cause = <<>> /\ exit_status = <<>>

ManIdle ==
  /\ m_sources = <<>> /\ m_s = 0 /\ m_k = 0 /\ allPlugins = <<>> /\ m_phase = "idle"

HashIdle ==
  /\ h_entries = <<>> /\ h_override = <<>> /\ h_phase = "idle"

CfgIdle ==
  /\ c_frags = <<>> /\ c_i = 0 /\ globalConfig = Map(<<>>) /\ c_state = "idle"
  /\ c_err = [kind |-> "", path |-> <<>>]

ExIdle ==
  /\ x_members = <<>> /\ x_i = 0 /\ x_dir = {} /\ x_archive = FALSE
  /\ x_state = "idle" /\ x_err = 0

RunIdle ==
  /\ r_manifest = <<>> /\ disk = <<>> /\ cfgFile = <<>> /\ r_pc = "idle" /\ r_i = 0
  /\ plugin_path_by_hash = <<>> /\ r_outcome = "none"
  /\ r_start = <<>> /\ r_log = <<>> /\ r_installed = {} /\ r_writes = 0

NpmIdle ==
  /\ n_plugin = <<>> /\ n_skip = FALSE /\ n_pc = "idle" /\ n_root = <<>>
  /\ n_start = <<>> /\ n_packs = 0 /\ n_err = ""

OciIdle ==
  /\ o_packages = <<>> /\ o_i = 0 /\ o_pc = "idle" /\ image_to_tarball = <<>>
  /\ o_copies = <<>> /\ o_layer = <<>> /\ o_files = <<>> /\ o_dest = {}
  /\ o_recorded = {}

(***************************************************************************)
(* Lock sub-model: create_lock, wait_for_lock_release, remove_lock and the *)
(* registrations at the top of main.                                       *)
(***************************************************************************)

\* remove_lock: os.remove(lock_file_path).  The file is gone afterwards, whether
\* it existed (removed) or not (FileNotFoundError inside the atexit callback,
\* which the interpreter reports and ignores).
remove_lock_noop(exists) == exists

remove_lock(exists) == FALSE

\* Exit status of the interpreter: an uncaught exception gives 1; sys.exit(0)
\* from the SIGTERM handler, exit(0) and falling off main give 0.
ExitStatusOf(cause) == IF cause = "fatal" THEN 1 ELSE 0

LockInit ==
  /\ pc = [p \in Procs |-> "create"]
  /\ lock_file = FALSE
  /\ lock_owner = 0
  /\ created = [p \in Procs |-> FALSE]
  /\ exit_cause = [p \in Procs |-> "none"]
  /\ exit_status = [p \in Procs |-> -1]

\* create_lock, one iteration of its loop: open(lock_file_path, 'x') either
\* creates the marker and returns, or raises FileExistsError and the invocation
\* enters wait_for_lock_release.
create_lock(p) ==
  /\ pc[p] = "create"
  /\ IF lock_file
       THEN /\ pc' = [pc EXCEPT ![p] = "wait"]
            /\ UNCHANGED <<lock_file, lock_owner, created>>
       ELSE /\ lock_file' = TRUE
            /\ lock_owner' = p
            /\ created' = [created EXCEPT ![p] = TRUE]
            /\ pc' = [pc EXCEPT ![p] = "pass"]
  /\ UNCHANGED <<exit_cause, exit_status>>
  /\ LockFrame

\* A variant whose poll has the test the wrong way round: it leaves the loop
\* while the marker exists.
wait_for_lock_release_inverted(p) ==
  /\ pc[p] = "wait"
  /\ lock_file
  /\ pc' = [pc EXCEPT ![p] = "create"]
  /\ UNCHANGED <<lock_file, lock_owner, created, exit_cause, exit_status>>
  /\ LockFrame

\* wait_for_lock_release: the poll that finds the marker gone breaks the loop
\* and create_lock retries; a poll that finds it sleeps (no state change).
wait_for_lock_release(p) ==
  /\ pc[p] = "wait"
  /\ ~lock_file
  /\ pc' = [pc EXCEPT ![p] = "create"]
  /\ UNCHANGED <<lock_file, lock_owner, created, exit_cause, exit_status>>
  /\ LockFrame

\* The reconciliation pass ends: main returns ("done"), takes one of the two
\* exit(0) early exits ("nothing") or raises an uncaught exception ("fatal").
\* Every one of them leads to interpreter exit, which runs the atexit callback.
PassEnds(p) ==
  /\ pc[p] = "pass"
  /\ \E c \in {"done", "nothing", "fatal"} :
       exit_cause' = [exit_cause EXCEPT ![p] = c]
  /\ pc' = [pc EXCEPT ![p] = "atexit"]
  /\ UNCHANGED <<lock_file, lock_owner, created, exit_status>>
  /\ LockFrame

\* SIGTERM: the handler installed before create_lock calls sys.exit(0), wherever
\* the invocation is: retrying the create, polling, or in its pass.
Sigterm(p) ==
  /\ pc[p] \in {"create", "wait", "pass"}
  /\ exit_cause' = [exit_cause EXCEPT ![p] = "sigterm"]
  /\ pc' = [pc EXCEPT ![p] = "atexit"]
  /\ UNCHANGED <<lock_file, lock_owner, created, exit_status>>
  /\ LockFrame

\* Interpreter exit: atexit runs remove_lock(lock_file_path), registered before
\* create_lock was called, so it runs whether or not this invocation created
\* the marker.
AtExit(p) ==
  /\ pc[p] = "atexit"
  /\ lock_file' = remove_lock(lock_file)
  /\ lock_owner' = IF lock_file' THEN lock_owner ELSE 0
  /\ exit_status' = [exit_status EXCEPT ![p] = ExitStatusOf(exit_cause[p])]
  /\ pc' = [pc EXCEPT ![p] = "exited"]
  /\ UNCHANGED <<created, exit_cause>>
  /\ LockFrame

\* The process is killed without running its exit callbacks (SIGKILL, OOM kill,
\* node loss): whatever marker exists stays.
Crash(p) ==
  /\ pc[p] \in {"create", "wait", "pass", "atexit"}
  /\ pc' = [pc EXCEPT ![p] = "crashed"]
  /\ exit_cause' = [exit_cause EXCEPT ![p] = "crash"]
  /\ UNCHANGED <<lock_file, lock_owner, created, exit_status>>
  /\ LockFrame

LockNext ==
  \E p \in Procs :
    \/ create_lock(p)
    \/ wait_for_lock_release(p)
    \/ PassEnds(p)
    \/ Sigterm(p)
    \/ AtExit(p)
    \/ Crash(p)

InitLock == LockInit /\ ManIdle /\ HashIdle /\ CfgIdle /\ ExIdle /\ RunIdle
            /\ NpmIdle /\ OciIdle

NextLock == LockNext

SpecLock == InitLock /\ [][NextLock]_vars

\* The invocations as processes that keep running: an invocation that has
\* created the marker is not killed before its exit callback has run (it
\* may still be ended by SIGTERM, which runs the callback), and each
\* invocation takes the step of its code that stays possible: the retry of
\* create_lock, the poll that finds the marker gone, the end of its pass and
\* the interpreter exit.
CrashBeforeCreate(p) == ~created[p] /\ Crash(p)

NextLockFair ==
  \E p \in Procs :
    \/ create_lock(p)
    \/ wait_for_lock_release(p)
    \/ PassEnds(p)
    \/ Sigterm(p)
    \/ AtExit(p)
    \/ CrashBeforeCreate(p)

LockFairness ==
  \A p \in Procs :
    /\ WF_vars(create_lock(p))
    /\ WF_vars(wait_for_lock_release(p))
    /\ WF_vars(PassEnds(p))
    /\ WF_vars(AtExit(p))

SpecLockFair == InitLock /\ [][NextLockFair]_vars /\ LockFairness

(***************************************************************************)
(* Manifest sub-model: main, lines 570-615, and mergePlugin.               *)
(***************************************************************************)

\* Plugin configuration fragments used by the manifests below.
CfgA1 == Map(<< <<"a", Leaf("1")>> >>)

CfgA2 == Map(<< <<"a", Leaf("2")>> >>)

\* A package value that is not a str (a YAML number, for instance).
NotAString == "<int>"

IsStr(x) == x # NotAString

\* for key in plugin: if key == 'package': continue;
\*                    allPlugins[package][key] = plugin[key]
RECURSIVE OverrideFields(_, _, _)
OverrideFields(entry, plugin, i) ==
  IF i > Len(plugin) THEN entry
  ELSE OverrideFields(
         IF plugin[i][1] = "package" THEN entry
         ELSE DictSet(entry, plugin[i][1], plugin[i][2]),
         plugin, i + 1)

\* mergePlugin(plugin, allPlugins, dynamicPluginsFile): the dict after the call,
\* or the InstallException it raises.
mergePlugin_replace(plugin, all) ==
  [ok |-> TRUE, all |-> DictSet(all, DictGet(plugin, "package"), plugin)]

mergePlugin(plugin, all) ==
  LET package == DictGet(plugin, "package") IN
  IF ~IsStr(package)
    THEN [ok |-> FALSE, all |-> all]
  ELSE IF ~HasKey(all, package)
    THEN [ok |-> TRUE, all |-> DictSet(all, package, plugin)]
  ELSE [ok |-> TRUE,
        all |-> DictSet(all, package, OverrideFields(DictGet(all, package), plugin, 1))]

\* The entries the manifests of this sub-model are made of.
ManEntries ==
  { << <<"package", "pkg-a">>, <<"pluginConfig", CfgA1>> >>,
    << <<"package", "pkg-a">>, <<"disabled", TRUE>> >>,
    << <<"pluginConfig", CfgA2>>, <<"package", "pkg-a">>, <<"integrity", "sha512-AAA">> >>,
    << <<"package", "pkg-b">> >>,
    << <<"package", "pkg-b">>, <<"pluginConfig", CfgA1>> >> }

\* The plugin lists of one manifest: flat, cut into one list per include (in
\* `includes` order) and the primary list, which main reads last.  An include
\* with no plugins may also be a file that does not exist (main skips it).
SourcesOf(flat, cuts, missing) ==
  LET n == Len(cuts)
      lo(i) == IF i = 1 THEN 1 ELSE cuts[i - 1] + 1
      hi(i) == IF i = n + 1 THEN Len(flat) ELSE cuts[i]
  IN  [i \in 1..(n + 1) |->
         [kind |-> IF i = n + 1 THEN "primary" ELSE "include",
          exists |-> ~(i \in missing),
          plugins |-> SubSeq(flat, lo(i), hi(i))]]

\* Cut points of flat: nondecreasing positions, one per include.
CutsOf(flat) ==
  {c \in UNION {[1..n -> 0..Len(flat)] : n \in 0..MaxIncludes} :
     \A i, j \in DOMAIN c : i <= j => c[i] <= c[j]}

EmptyIncludes(cuts) ==
  {i \in DOMAIN cuts : cuts[i] = (IF i = 1 THEN 0 ELSE cuts[i - 1])}

ManInit ==
  /\ \E flat \in SeqsUpTo(ManEntries, MaxEntries) :
       \E c \in CutsOf(flat) :
         \E missing \in SUBSET EmptyIncludes(c) :
           m_sources = SourcesOf(flat, c, missing)
  /\ m_s = 1
  /\ m_k = 1
  /\ allPlugins = <<>>
  /\ m_phase = "merge"

\* One iteration of `for plugin in includePlugins` / `for plugin in plugins`.
MergeOne ==
  /\ m_phase = "merge"
  /\ m_s <= Len(m_sources)
  /\ m_k <= Len(m_sources[m_s].plugins)
  /\ LET r == mergePlugin(m_sources[m_s].plugins[m_k], allPlugins)
     IN  /\ allPlugins' = r.all
         /\ m_phase' = IF r.ok THEN "merge" ELSE "fatal"
  /\ m_k' = m_k + 1
  /\ UNCHANGED <<m_sources, m_s>>
  /\ ManFrame

\* The list is exhausted (or the include does not exist and is skipped with a
\* warning): on to the next include, then to the primary list, then on.
NextSource ==
  /\ m_phase = "merge"
  /\ m_s <= Len(m_sources)
  /\ m_k > Len(m_sources[m_s].plugins)
  /\ m_s' = m_s + 1
  /\ m_k' = 1
  /\ m_phase' = IF m_s = Len(m_sources) THEN "done" ELSE "merge"
  /\ UNCHANGED <<m_sources, allPlugins>>
  /\ ManFrame

ManNext == MergeOne \/ NextSource

InitManifest == ManInit /\ LockIdle /\ HashIdle /\ CfgIdle /\ ExIdle /\ RunIdle
                /\ NpmIdle /\ OciIdle

NextManifest == ManNext

SpecManifest == InitManifest /\ [][NextManifest]_vars

(***************************************************************************)
(* Fingerprint sub-model: main, lines 617-629.                             *)
(***************************************************************************)

\* Packages whose identifier starts with './' (local paths).
LocalPackages == {"./local-c"}

\* get_local_package_info: what the installer reads from the local package
\* (package.json content and modification times); it is a function of the
\* package's files, which do not change while an entry is hashed.
get_local_package_info(package) == <<"info", package>>

\* json.dumps(..., sort_keys=True) writes the keys in code-point order.
JsonKeyOrder ==
  <<"_local_package_info", "disabled", "forceDownload", "hash", "integrity",
    "package", "pluginConfig", "pullPolicy">>

KeyRank(k) == CHOOSE i \in DOMAIN JsonKeyOrder : JsonKeyOrder[i] = k

\* The JSON text is modelled by the sequence of its members in the order written.
json_dumps_unsorted(d) == d

json_dumps(d) ==
  LET n == Len(d)
      pos(j) == Cardinality({l \in 1..n : KeyRank(d[l][1]) < KeyRank(d[j][1])}) + 1
  IN  [i \in 1..n |-> d[CHOOSE j \in 1..n : pos(j) = i]]

\* hashlib.sha256(...).hexdigest(), taken as collision-free.
sha256(text) == <<"sha256", text>>

\* One iteration of the loop at line 618: the value stored in plugin['hash'].
PluginHash_keep_config(plugin) ==
  LET package == DictGet(plugin, "package")
      hash_dict == IF package \in LocalPackages
                     THEN DictSet(plugin, "_local_package_info",
                                  get_local_package_info(package))
                     ELSE plugin
  IN  sha256(json_dumps(hash_dict))

PluginHash(plugin) ==
  LET copy == DictPop(plugin, "pluginConfig")
      package == DictGet(plugin, "package")
      hash_dict == IF package \in LocalPackages
                     THEN DictSet(copy, "_local_package_info",
                                  get_local_package_info(package))
                     ELSE copy
  IN  sha256(json_dumps(hash_dict))

\* The values the fields of the entries of this sub-model take.
HashFieldVals ==
  [package      |-> {"pkg-a", "./local-c"},
   integrity    |-> {"sha512-AAA", "sha512-BBB"},
   pullPolicy   |-> {"Always", "IfNotPresent"},
   pluginConfig |-> {CfgA1, CfgA2}]

\* Entries with a package and at most MaxFields other fields, in any key order.
HashEntries ==
  {d \in DictsUpTo(HashFieldVals, MaxFields + 1) : HasKey(d, "package")}

\* What a later source may say about the same package.
OverridesFor(package) ==
  { <<>>,
    << <<"package", package>>, <<"integrity", "sha512-BBB">> >>,
    << <<"package", package>>, <<"pluginConfig", CfgA2>> >> }

HashInit ==
  /\ h_entries \in HashEntries \X HashEntries
  /\ h_override \in OverridesFor(DictGet(h_entries[1], "package"))
  /\ h_phase = "merge"

\* The override of the first entry by the later source (mergePlugin), which
\* ends the merge loops of main.
HashMerge ==
  /\ h_phase = "merge"
  /\ LET package == DictGet(h_entries[1], "package")
         all == << <<package, h_entries[1]>> >>
         merged == IF h_override = <<>> THEN all ELSE mergePlugin(h_override, all).all
     IN  h_entries' = [h_entries EXCEPT ![1] = DictGet(merged, package)]
  /\ h_phase' = "hash1"
  /\ UNCHANGED h_override
  /\ HashFrame

\* for plugin in allPlugins.values(): ... plugin['hash'] = hash
HashOne ==
  /\ h_phase \in {"hash1", "hash2"}
  /\ LET i == IF h_phase = "hash1" THEN 1 ELSE 2
     IN  h_entries' = [h_entries EXCEPT ![i] = DictSet(@, "hash", PluginHash(@))]
  /\ h_phase' = IF h_phase = "hash1" THEN "hash2" ELSE "decide"
  /\ UNCHANGED h_override
  /\ HashFrame

HashNext == HashMerge \/ HashOne

InitHash == HashInit /\ LockIdle /\ ManIdle /\ CfgIdle /\ ExIdle /\ RunIdle
            /\ NpmIdle /\ OciIdle

NextHash == HashNext

SpecHash == InitHash /\ [][NextHash]_vars

(***************************************************************************)
(* Configuration sub-model: merge, maybeMergeConfig and the loop of main,  *)
(* lines 642-648, seen from the pluginConfig values install_plugin hands   *)
(* back.                                                                   *)
(***************************************************************************)

\* How many plugins hand a fragment to the merge.
MaxFrags == 2

\* main, lines 551-555.
SeedConfig ==
  Map(<< <<"dynamicPlugins",
           Map(<< <<"rootDirectory", Leaf("dynamic-plugins-root")>> >>)>> >>)

MergeOk(node) == [ok |-> TRUE, node |-> node, kind |-> "", path |-> <<>>]

MergeRaise(node, kind, path) == [ok |-> FALSE, node |-> node, kind |-> kind, path |-> path]

\* merge without the test of line 402: the later value silently wins.
RECURSIVE merge_overwrite(_, _, _, _)
merge_overwrite(source, destination, prefix, i) ==
  IF i > Len(source) THEN MergeOk(destination)
  ELSE LET key == source[i][1]
           value == source[i][2]
       IN IF ~IsDict(destination) THEN MergeRaise(destination, "TypeError", <<>>)
          ELSE IF IsDict(value)
            THEN LET node == DictGetOr(destination.items, key, Map(<<>>))
                     sub == merge_overwrite(value.items, node, <<key>>, 1)
                     dest1 == Map(DictSet(destination.items, key, sub.node))
                 IN IF sub.ok THEN merge_overwrite(source, dest1, prefix, i + 1)
                    ELSE MergeRaise(dest1, sub.kind, sub.path)
            ELSE merge_overwrite(source, Map(DictSet(destination.items, key, value)),
                                 prefix, i + 1)

\* merge(source, destination, prefix), from item i of source on.  The
\* destination is mutated in place, so what was merged before an exception
\* stays merged.  A destination that is not a dict (the setdefault of line
\* 398 returned a scalar) makes the first item of the source raise a
\* TypeError or AttributeError; an empty source never touches it.  The
\* recursive call passes key + '.', not prefix + key + '.'.
RECURSIVE merge(_, _, _, _)
merge(source, destination, prefix, i) ==
  IF i > Len(source) THEN MergeOk(destination)
  ELSE LET key == source[i][1]
           value == source[i][2]
       IN IF ~IsDict(destination) THEN MergeRaise(destination, "TypeError", <<>>)
          ELSE IF IsDict(value)
            THEN LET node == DictGetOr(destination.items, key, Map(<<>>))
                     sub == merge(value.items, node, <<key>>, 1)
                     dest1 == Map(DictSet(destination.items, key, sub.node))
                 IN IF sub.ok THEN merge(source, dest1, prefix, i + 1)
                    ELSE MergeRaise(dest1, sub.kind, sub.path)
            ELSE IF HasKey(destination.items, key) /\ DictGet(destination.items, key) # value
              THEN MergeRaise(destination, "InstallException", prefix \o <<key>>)
              ELSE merge(source, Map(DictSet(destination.items, key, value)),
                         prefix, i + 1)

\* A variant that updates the accumulator key by key at the top level
\* (dict.update) instead of merging into it.
maybeMergeConfig_update(config, global) ==
  IF config # PyNone /\ IsDict(config)
  THEN MergeOk(Map(SelectSeq(global.items, LAMBDA kv : ~HasKey(config.items, kv[1]))
                   \o config.items))
  ELSE MergeOk(global)

\* maybeMergeConfig(config, globalConfig).
maybeMergeConfig(config, global) ==
  IF config # PyNone /\ IsDict(config) THEN merge(config.items, global, <<>>, 1)
  ELSE MergeOk(global)

\* Python truth of a pluginConfig value (main, line 647): an empty dict and
\* an empty string are false.
Truthy(node) == IF IsDict(node) THEN node.items # <<>> ELSE node.v # ""

M1(k, n) == Map(<< <<k, n>> >>)

M2(k1, n1, k2, n2) == Map(<< <<k1, n1>>, <<k2, n2>> >>)

\* The pluginConfig values the plugins of a manifest carry.
ConfigFragments ==
  { M1("x", M1("y", Leaf("1"))),
    M1("x", M1("y", Leaf("2"))),
    M1("x", M1("z", Leaf("2"))),
    M1("x", M2("y", Leaf("1"), "z", Leaf("2"))),
    M2("z", Leaf("1"), "x", M1("y", Leaf("2"))),
    M1("x", Leaf("1")),
    M1("x", Map(<<>>)),
    M1("a", M1("b", M1("c", Leaf("1")))),
    M1("a", M1("b", M1("c", Leaf("2")))),
    M1("a", M1("b", M1("d", Leaf("1")))),
    M1("dynamicPlugins", M1("rootDirectory", Leaf("other-root"))),
    M1("dynamicPlugins", M1("rootDirectory", Leaf("dynamic-plugins-root"))),
    M1("dynamicPlugins", M1("x", Leaf("1"))),
    Map(<<>>),
    Leaf("text"),
    PyNone }

CfgInit ==
  /\ \E n \in 0..MaxFrags : c_frags \in [1..n -> ConfigFragments]
  /\ c_i = 0
  /\ globalConfig = SeedConfig
  /\ c_state = "merging"
  /\ c_err = [kind |-> "", path |-> <<>>]

\* One turn of the loop of main, lines 643-648, after install_plugin has
\* returned the plugin's pluginConfig.
MergeFragment ==
  /\ c_state = "merging"
  /\ c_i < Len(c_frags)
  /\ LET plugin_config == c_frags[c_i + 1]
         r == IF Truthy(plugin_config)
              THEN maybeMergeConfig(plugin_config, globalConfig)
              ELSE MergeOk(globalConfig)
     IN /\ globalConfig' = r.node
        /\ c_state' = IF r.ok THEN "merging" ELSE "fatal"
        /\ c_err' = [kind |-> r.kind, path |-> r.path]
  /\ c_i' = c_i + 1
  /\ UNCHANGED c_frags
  /\ CfgFrame

\* The loop is over: main goes on to dump globalConfig (line 650).
MergeDone ==
  /\ c_state = "merging"
  /\ c_i = Len(c_frags)
  /\ c_state' = "done"
  /\ UNCHANGED <<c_frags, c_i, globalConfig, c_err>>
  /\ CfgFrame

CfgNext == MergeFragment \/ MergeDone

InitConfig == CfgInit /\ LockIdle /\ ManIdle /\ HashIdle /\ ExIdle /\ RunIdle
              /\ NpmIdle /\ OciIdle

NextConfig == CfgNext

SpecConfig == InitConfig /\ [][NextConfig]_vars

(***************************************************************************)
(* Extraction sub-model: NpmPluginInstaller._extract_npm_package.          *)
(*                                                                         *)
(* A path is the sequence of its components.  The archive is               *)
(* pkg-a-1.0.0.tgz in the installation root; no symbolic link lies on the  *)
(* way to the installation root.                                           *)
(***************************************************************************)

\* How many members an archive holds.
MaxMembers == 2

\* NpmPluginInstaller.__init__, line 261: the default of MAX_ENTRY_SIZE.
max_entry_size == 20000000

\* os.path.abspath(self.destination).
Root == <<"app", "dynamic-plugins-root">>

\* directory = archive.replace('.tgz', '').
Directory == Root \o <<"pkg-a-1.0.0">>

\* The pairs <<s, t>> of distinct file names used here where the string s
\* starts with the string t.
NamePrefixes == { <<"pkg-a-1.0.0-x", "pkg-a-1.0.0">> }

\* os.path.realpath of an absolute path: ".." steps out of the component
\* before it, and stays at "/" when there is none.
RECURSIVE Resolve(_, _)
Resolve(path, acc) ==
  IF path = <<>> THEN acc
  ELSE IF Head(path) = ".."
    THEN Resolve(Tail(path), IF acc = <<>> THEN acc ELSE SubSeq(acc, 1, Len(acc) - 1))
    ELSE Resolve(Tail(path), Append(acc, Head(path)))

realpath(path) == Resolve(path, <<>>)

\* str.startswith on the strings of two resolved absolute paths: the last
\* component of the prefix need only begin the component it meets.
startswith(path, prefix) ==
  LET k == Len(prefix)
  IN \/ k = 0
     \/ /\ Len(path) >= k
        /\ \A j \in 1..(k - 1) : path[j] = prefix[j]
        /\ \/ path[k] = prefix[k]
           \/ <<path[k], prefix[k]>> \in NamePrefixes

\* The path lies in the directory or is the directory (os.path.commonpath).
Inside(path, dir) == Len(path) >= Len(dir) /\ SubSeq(path, 1, Len(dir)) = dir

\* name.startswith('package/').
HasPackagePrefix(name) == Len(name) >= 2 /\ name[1] = "package"

\* name.removeprefix('package/').
removeprefix(name) == IF HasPackagePrefix(name) THEN Tail(name) ELSE name

\* tar.extract(member, path=directory, filter='tar'): the filter refuses a
\* member whose name leads out of the directory (OutsideDestinationError);
\* it does not look at link targets.
tar_filter(name) == Inside(realpath(Directory \o name), Directory)

Extracted(thing) == [raised |-> FALSE, skipped |-> FALSE, thing |-> thing]

NoThing == [name |-> <<>>, type |-> "", link |-> <<>>]

Raised == [raised |-> TRUE, skipped |-> FALSE, thing |-> NoThing]

\* The body of the loop of lines 306-340 for one member.
extract_member(member) ==
  IF member.type = "reg"
  THEN IF ~HasPackagePrefix(member.name) THEN Raised
       ELSE IF member.size > max_entry_size THEN Raised
       ELSE LET name == removeprefix(member.name)
            IN IF tar_filter(name)
               THEN Extracted([name |-> name, type |-> "reg", link |-> <<>>])
               ELSE Raised
  ELSE IF member.type = "dir"
  THEN [raised |-> FALSE, skipped |-> TRUE, thing |-> NoThing]
  ELSE IF member.type \in {"lnk", "sym"}
  THEN IF ~HasPackagePrefix(member.linkname) THEN Raised
       ELSE LET name == removeprefix(member.name)
                linkpath == removeprefix(member.linkname)
            IN IF ~startswith(realpath(Directory \o linkpath), realpath(Directory))
               THEN Raised
               ELSE IF tar_filter(name)
                 THEN Extracted([name |-> name, type |-> member.type, link |-> linkpath])
                 ELSE Raised
  ELSE Raised

\* The members an archive is made of.
MemberPool ==
  { [type |-> "reg", name |-> n, linkname |-> <<>>, size |-> 5] :
      n \in { <<"package", "index.js">>, <<"index.js">>,
              <<"package", "..", "..", "up.txt">>,
              <<"package", "dynamic-plugin-config.hash">> } }
  \cup { [type |-> "reg", name |-> <<"package", "big.bin">>, linkname |-> <<>>,
          size |-> max_entry_size + 1] }
  \cup { [type |-> "dir", name |-> <<"package", "lib">>, linkname |-> <<>>, size |-> 0],
         [type |-> "chr", name |-> <<"package", "dev">>, linkname |-> <<>>, size |-> 0] }
  \cup { [type |-> t, name |-> n, linkname |-> l, size |-> 0] :
           t \in {"sym", "lnk"},
           n \in { <<"package", "l">>, <<"l">> },
           l \in { <<"package", "index.js">>,
                   <<"package", "..", "..", "etc">>,
                   <<"package", "..", "pkg-a-1.0.0-x", "f">>,
                   <<"package", "..", "other", "f">>,
                   <<"..", "x">> } }

\* What a previous install of the package left in the directory.
OldInstall ==
  { [name |-> <<"dynamic-plugin-config.hash">>, type |-> "reg", link |-> <<>>],
    [name |-> <<"old.js">>, type |-> "reg", link |-> <<>>] }

ExInit ==
  /\ \E n \in 0..MaxMembers : x_members \in [1..n -> MemberPool]
  /\ x_i = 0
  /\ x_dir \in {{}, OldInstall}
  /\ x_archive = TRUE
  /\ x_state = "start"
  /\ x_err = 0

\* Lines 295-302: the directory is removed if it exists and made anew.
ExtractStart ==
  /\ x_state = "start"
  /\ x_dir' = {}
  /\ x_i' = 1
  /\ x_state' = "members"
  /\ UNCHANGED <<x_members, x_archive, x_err>>
  /\ ExFrame

\* Lines 306-340: one member.  An exception leaves the function at once.
ExtractMember ==
  /\ x_state = "members"
  /\ x_i <= Len(x_members)
  /\ LET r == extract_member(x_members[x_i])
     IN IF r.raised
        THEN /\ x_state' = "fatal"
             /\ x_err' = x_i
             /\ UNCHANGED <<x_dir, x_i>>
        ELSE /\ x_dir' = IF r.skipped THEN x_dir
                         ELSE {t \in x_dir : t.name # r.thing.name} \cup {r.thing}
             /\ x_i' = x_i + 1
             /\ UNCHANGED <<x_state, x_err>>
  /\ UNCHANGED <<x_members, x_archive>>
  /\ ExFrame

\* Lines 342-345: the archive is removed and the directory name returned.
ExtractEnd ==
  /\ x_state = "members"
  /\ x_i > Len(x_members)
  /\ x_archive' = FALSE
  /\ x_state' = "done"
  /\ UNCHANGED <<x_members, x_i, x_dir, x_err>>
  /\ ExFrame

ExNext == ExtractStart \/ ExtractMember \/ ExtractEnd

InitExtract == ExInit /\ LockIdle /\ ManIdle /\ HashIdle /\ CfgIdle /\ RunIdle
               /\ NpmIdle /\ OciIdle

NextExtract == ExNext

SpecExtract == InitExtract /\ [][NextExtract]_vars

(***************************************************************************)
(* Run sub-model: main, install_plugin and the two installers, over        *)
(* repeated runs (one at a time) on one installation root.  The manifest,  *)
(* the registry and the image registry                                     *)
(* do not change between the runs of a behaviour.  A run may end on a      *)
(* fatal error at every call of an external tool and at every extraction,  *)
(* and on SIGTERM anywhere.                                                *)
(***************************************************************************)

\* How many entries the resolved manifest holds.
MaxPlugins == 2

\* A fragment that sets a key under the seeded dynamicPlugins mapping.
CfgDyn == Map(<< <<"dynamicPlugins", Map(<< <<"x", Leaf("1")>> >>)>> >>)

RunPackages == {"pkg-a", "oci://img:latest!pa", "oci://img:v1!pa"}

\* package.startswith('oci://').
IsOci(package) == package \in {"oci://img:latest!pa", "oci://img:v1!pa"}

\* package.startswith('./').
IsLocal(package) == package \in LocalPackages

\* ':latest!' in package.
HasLatestTag(package) == package = "oci://img:latest!pa"

\* The directory an install of the package writes, relative to the
\* installation root: the path after '!' of an image reference, the name of
\* the archive npm pack produces without its .tgz for the others.
PluginPath(package) == IF IsOci(package) THEN "pa" ELSE "pkg-a-1.0.0"

Dirs == {"pa", "pkg-a-1.0.0"}

\* The order in which os.listdir yields the directories.
DirOrder == <<"pa", "pkg-a-1.0.0">>

\* What skopeo inspect reports as the digest of the image.
RemoteDigest == "d-new"

NoHash == <<>>

NoDigest == ""

\* A directory that does not exist; one that exists without a fingerprint
\* file; one with a fingerprint file and possibly a digest file.
Absent == [exists |-> FALSE, hash |-> NoHash, digest |-> NoDigest]

Partial == [exists |-> TRUE, hash |-> NoHash, digest |-> NoDigest]

InstalledDir(h, dg) == [exists |-> TRUE, hash |-> h, digest |-> dg]

\* The least an entry of a package holds.
BaseEntry(package) ==
  IF IsOci(package) THEN << <<"package", package>> >>
  ELSE << <<"package", package>>, <<"integrity", "sha512-AAA">> >>

RunOptions ==
  { <<"pullPolicy", "Always">>, <<"pullPolicy", "IfNotPresent">>,
    <<"forceDownload", TRUE>>, <<"disabled", TRUE>>,
    <<"pluginConfig", CfgA1>>, <<"pluginConfig", CfgA2>>,
    <<"pluginConfig", CfgDyn>> }

\* The entries of a package: the base, the base with one more field, a
\* disabled entry with a pluginConfig, and for a registry package the entry
\* without integrity.
RunEntries ==
  UNION { {BaseEntry(p)} \cup {Append(BaseEntry(p), o) : o \in RunOptions} \cup
          {BaseEntry(p) \o << <<"disabled", TRUE>>, <<"pluginConfig", CfgA1>> >>} \cup
          (IF IsOci(p) THEN {} ELSE { << <<"package", p>> >> }) : p \in RunPackages }

\* A field of a mapping of the manifest: absent ("missing"), a list with its
\* items, or a value of another type.
Field(t, items) == [t |-> t, items |-> items]

NoField == Field("missing", <<>>)

ListOf(items) == Field("list", items)

NotAList == Field("str", <<>>)

\* What yaml.safe_load returns for the manifest or for an included file:
\* None, a string, a list, or a mapping with its includes and plugins.
Content(t, v, includes, plugins) ==
  [t |-> t, v |-> v, includes |-> includes, plugins |-> plugins]

ContentNone == Content("none", "", NoField, NoField)

ContentStr(v) == Content("str", v, NoField, NoField)

ContentList == Content("list", "", NoField, NoField)

ContentMap(includes, plugins) == Content("map", "", includes, plugins)

\* An item of includes: the name of a file, with what the file holds if it
\* exists, or a value that is not a str.
Include(exists, content) == [t |-> "str", exists |-> exists, content |-> content]

IncludeNotAString == [t |-> "int", exists |-> FALSE, content |-> ContentNone]

\* dynamic-plugins.yaml in the working directory.
ManifestFile(content) == [file |-> TRUE, content |-> content]

NoManifestFile == [file |-> FALSE, content |-> ContentNone]

\* An entry whose package is not a str.
BadPackageEntry == << <<"package", NotAString>> >>

\* Manifests besides the plain ones (a mapping with a plugins list): no
\* file, empty content, content and fields of the wrong type, includes.
OtherManifests ==
  LET a == BaseEntry("pkg-a")
      good == Include(TRUE, ContentMap(NoField, ListOf(<<Append(a, <<"pluginConfig", CfgA1>>)>>)))
      gone == Include(FALSE, ContentNone)
      WithInclude(item) == ManifestFile(ContentMap(ListOf(<<good, item>>), ListOf(<<a>>)))
  IN { NoManifestFile,
       ManifestFile(ContentNone),
       ManifestFile(ContentStr("")),
       ManifestFile(ContentStr("text")),
       ManifestFile(ContentList),
       ManifestFile(ContentMap(NotAList, ListOf(<<a>>))),
       ManifestFile(ContentMap(NoField, NotAList)),
       ManifestFile(ContentMap(ListOf(<<good>>), NotAList)),
       ManifestFile(ContentMap(NoField, ListOf(<<a, BadPackageEntry>>))),
       WithInclude(IncludeNotAString),
       WithInclude(Include(TRUE, ContentNone)),
       WithInclude(Include(TRUE, ContentList)),
       WithInclude(Include(TRUE, ContentMap(NoField, NotAList))),
       WithInclude(Include(TRUE, ContentMap(NoField, NoField))),
       WithInclude(Include(TRUE, ContentMap(NoField, ListOf(<<a, BadPackageEntry>>)))),
       WithInclude(gone),
       ManifestFile(ContentMap(ListOf(<<gone, good>>),
                               ListOf(<< << <<"package", "pkg-a">>, <<"disabled", TRUE>> >> >>))) }

\* for plugin in plugins: mergePlugin(plugin, allPlugins, dynamicPluginsFile)
RECURSIVE merge_plugins(_, _, _)
merge_plugins(plugins, all, i) ==
  IF i > Len(plugins) THEN [ok |-> TRUE, all |-> all]
  ELSE LET r == mergePlugin(plugins[i], all)
       IN IF r.ok THEN merge_plugins(plugins, r.all, i + 1) ELSE r

\* The loop of lines 583-604 from item i of includes on.  A file without a
\* plugins key raises KeyError at line 599.
RECURSIVE load_includes(_, _, _)
load_includes(includes, all, i) ==
  IF i > Len(includes) THEN [ok |-> TRUE, all |-> all]
  ELSE LET include == includes[i]
       IN IF include.t # "str" THEN [ok |-> FALSE, all |-> all]
          ELSE IF ~include.exists THEN load_includes(includes, all, i + 1)
          ELSE IF include.content.t # "map" THEN [ok |-> FALSE, all |-> all]
          ELSE IF include.content.plugins.t # "list" THEN [ok |-> FALSE, all |-> all]
          ELSE LET r == merge_plugins(include.content.plugins.items, all, 1)
               IN IF r.ok THEN load_includes(includes, r.all, i + 1) ELSE r

\* A loader without the type tests of lines 567, 580 and 611.
load_manifest_unchecked(content) ==
  LET r == load_includes(content.includes.items, <<>>, 1)
  IN IF r.ok THEN merge_plugins(content.plugins.items, r.all, 1) ELSE r

\* Lines 567-615: allPlugins, or the exception that ends the run.
load_manifest(content) ==
  IF content.t # "map" THEN [ok |-> FALSE, all |-> <<>>]
  ELSE LET includes == IF content.includes.t = "missing" THEN ListOf(<<>>)
                       ELSE content.includes
       IN IF includes.t # "list" THEN [ok |-> FALSE, all |-> <<>>]
          ELSE LET r == load_includes(includes.items, <<>>, 1)
                   plugins == IF content.plugins.t = "missing" THEN ListOf(<<>>)
                              ELSE content.plugins
               IN IF ~r.ok THEN r
                  ELSE IF plugins.t # "list" THEN [ok |-> FALSE, all |-> r.all]
                  ELSE merge_plugins(plugins.items, r.all, 1)

\* Lines 618-629: every resolved entry gets its hash.
add_hashes(all) ==
  [j \in DOMAIN all |-> <<all[j][1], DictSet(all[j][2], "hash", PluginHash(all[j][2]))>>]

\* The test of line 544 alone.
nothing_to_install_absent_only(manifest) == ~manifest.file

\* The tests of lines 544 and 560.
nothing_to_install(manifest) ==
  \/ ~manifest.file
  \/ manifest.content.t = "none"
  \/ manifest.content.t = "str" /\ manifest.content.v = ""

\* The configuration file before the first run: none, or one an earlier
\* run with another manifest wrote.
NoConfigFile == [exists |-> FALSE, doc |-> Map(<<>>)]

OldConfigFile ==
  [exists |-> TRUE,
   doc |-> Map(<< <<"dynamicPlugins",
                    Map(<< <<"rootDirectory", Leaf("dynamic-plugins-root")>> >>)>>,
                  <<"old", Leaf("1")>> >>)]

\* The configuration file after file.write('').
EmptyFile == [exists |-> TRUE, doc |-> PyNone]

\* The directories as earlier runs with other manifests may have left them.
InitialDisks ==
  LET latest == PluginHash(BaseEntry("oci://img:latest!pa"))
      v1 == PluginHash(BaseEntry("oci://img:v1!pa"))
      a == PluginHash(BaseEntry("pkg-a"))
  IN { [d \in Dirs |-> IF d = "pa" THEN x ELSE y] :
         x \in { Absent, InstalledDir(latest, NoDigest), InstalledDir(latest, "d-old"),
                 InstalledDir(v1, RemoteDigest) },
         y \in { Absent, InstalledDir(a, NoDigest) } }

\* plugin.get('disabled', False).
IsDisabled(plugin) == DictGetOr(plugin, "disabled", FALSE)

\* The default of pullPolicy for an image reference (line 211).
default_pull_policy_if_not_present(package) == "IfNotPresent"

default_pull_policy(package) ==
  IF HasLatestTag(package) THEN "Always" ELSE "IfNotPresent"

Decision(skip, reason, queried, local) ==
  [skip |-> skip, reason |-> reason, queried |-> queried, local |-> local]

\* A generic decision that never skips an installed plugin.
PluginInstaller_should_skip_installation_never(plugin, snapshot) ==
  IF ~HasKey(snapshot, DictGet(plugin, "hash"))
  THEN Decision(FALSE, "not_installed", FALSE, NoDigest)
  ELSE Decision(FALSE, "force_download", FALSE, NoDigest)

\* A generic decision that looks at the snapshot only.
PluginInstaller_should_skip_installation_ignore_policy(plugin, snapshot) ==
  IF ~HasKey(snapshot, DictGet(plugin, "hash"))
  THEN Decision(FALSE, "not_installed", FALSE, NoDigest)
  ELSE Decision(TRUE, "already_installed", FALSE, NoDigest)

\* PluginInstaller.should_skip_installation.
PluginInstaller_should_skip_installation(plugin, snapshot) ==
  LET plugin_hash == DictGet(plugin, "hash")
      pull_policy == DictGetOr(plugin, "pullPolicy", "IfNotPresent")
      force_download == DictGetOr(plugin, "forceDownload", FALSE)
  IN IF ~HasKey(snapshot, plugin_hash)
     THEN Decision(FALSE, "not_installed", FALSE, NoDigest)
     ELSE IF pull_policy = "Always" \/ force_download
       THEN Decision(FALSE, "force_download", FALSE, NoDigest)
       ELSE Decision(TRUE, "already_installed", FALSE, NoDigest)

\* OciPluginInstaller.should_skip_installation; the digest file is read
\* from the directory the snapshot names, as it is on disk now.
OciPluginInstaller_should_skip_installation(plugin, snapshot, dsk) ==
  LET package == DictGet(plugin, "package")
      plugin_hash == DictGet(plugin, "hash")
      pull_policy == DictGetOr(plugin, "pullPolicy", default_pull_policy(package))
  IN IF ~HasKey(snapshot, plugin_hash)
     THEN Decision(FALSE, "not_installed", FALSE, NoDigest)
     ELSE IF pull_policy = "IfNotPresent"
       THEN Decision(TRUE, "already_installed", FALSE, NoDigest)
       ELSE IF pull_policy = "Always"
         THEN LET local_digest == dsk[DictGet(snapshot, plugin_hash)].digest
              IN IF RemoteDigest = local_digest
                 THEN Decision(TRUE, "digest_unchanged", TRUE, local_digest)
                 ELSE Decision(FALSE, "force_download", TRUE, local_digest)
         ELSE Decision(FALSE, "force_download", FALSE, NoDigest)

\* create_plugin_installer followed by should_skip_installation.
should_skip_installation(plugin, snapshot, dsk) ==
  IF IsOci(DictGet(plugin, "package"))
  THEN OciPluginInstaller_should_skip_installation(plugin, snapshot, dsk)
  ELSE PluginInstaller_should_skip_installation(plugin, snapshot)

\* Lines 632-640.
RECURSIVE scan(_, _, _)
scan(dsk, i, acc) ==
  IF i > Len(DirOrder) THEN acc
  ELSE LET dir_name == DirOrder[i]
       IN scan(dsk, i + 1,
               IF dsk[dir_name].exists /\ dsk[dir_name].hash # NoHash
               THEN DictSet(acc, dsk[dir_name].hash, dir_name)
               ELSE acc)

\* A cleanup that removes nothing.
remove_orphans_none(dsk, snapshot) == dsk

\* Lines 652-656: every directory the snapshot still names is removed.
remove_orphans(dsk, snapshot) ==
  [d \in DOMAIN dsk |->
     IF \E j \in DOMAIN snapshot : snapshot[j][2] = d THEN Absent ELSE dsk[d]]

\* yaml.safe_dump writes the keys of every mapping in code-point order.
YamlKeyOrder ==
  <<"a", "b", "c", "d", "dynamicPlugins", "rootDirectory", "x", "y", "z">>

YamlRank(k) == CHOOSE i \in DOMAIN YamlKeyOrder : YamlKeyOrder[i] = k

RECURSIVE yaml_safe_dump(_)
yaml_safe_dump(node) ==
  IF ~IsDict(node) THEN node
  ELSE LET d == node.items
           n == Len(d)
           pos(j) == Cardinality({l \in 1..n : YamlRank(d[l][1]) < YamlRank(d[j][1])}) + 1
       IN Map([i \in 1..n |->
                 LET kv == d[CHOOSE j \in 1..n : pos(j) = i]
                 IN <<kv[1], yaml_safe_dump(kv[2])>>])

\* The plugin at hand.
Plugin == allPlugins[r_i][2]

\* A loop that merges no pluginConfig.
MergeReturned_nothing(plugin) == MergeOk(globalConfig)

\* The merge of lines 647-648 for the pluginConfig install_plugin returned.
MergeReturned(plugin) ==
  LET plugin_config == DictGetOr(plugin, "pluginConfig", Map(<<>>))
  IN IF Truthy(plugin_config) THEN maybeMergeConfig(plugin_config, globalConfig)
     ELSE MergeOk(globalConfig)

\* What r_start holds when no run has begun or the last one did not
\* complete.
NoRun ==
  [disk |-> [d \in Dirs |-> Absent],
   cfg |-> [exists |-> FALSE, doc |-> Map(<<>>)],
   after_completed |-> FALSE]

RunInit ==
  /\ \/ \E n \in 0..MaxPlugins : \E f \in [1..n -> RunEntries] :
          /\ \A j, k \in 1..n :
               j # k => DictGet(f[j], "package") # DictGet(f[k], "package")
          /\ r_manifest = ManifestFile(ContentMap(NoField, ListOf(f)))
     \/ r_manifest \in OtherManifests
  /\ disk \in InitialDisks
  /\ cfgFile \in {NoConfigFile, OldConfigFile}
  /\ r_pc = "idle"
  /\ r_i = 0
  /\ plugin_path_by_hash = <<>>
  /\ r_outcome = "none"
  /\ r_start = NoRun
  /\ r_log = <<>>
  /\ r_installed = {}
  /\ r_writes = 0
  /\ allPlugins = <<>>
  /\ globalConfig = Map(<<>>)
  /\ lock_file = FALSE

\* The run ends before its end, on an exception, on exit(0) or on SIGTERM:
\* the interpreter runs remove_lock, the process is gone and nothing of its
\* memory is left.
RunEnds(outcome) ==
  /\ r_pc' = "idle"
  /\ r_outcome' = outcome
  /\ r_i' = 0
  /\ plugin_path_by_hash' = <<>>
  /\ r_start' = NoRun
  /\ r_log' = <<>>
  /\ r_installed' = {}
  /\ r_writes' = 0
  /\ allPlugins' = <<>>
  /\ globalConfig' = Map(<<>>)
  /\ lock_file' = remove_lock(lock_file)

\* A new invocation: lines 531-538.  No other invocation runs, so
\* create_lock finds no marker and creates it.
RunStart ==
  /\ r_pc = "idle"
  /\ ~lock_file
  /\ lock_file' = TRUE
  /\ r_pc' = "manifest"
  /\ r_outcome' = "running"
  /\ r_start' = [disk |-> disk, cfg |-> cfgFile,
                 after_completed |-> (r_outcome = "completed")]
  /\ r_i' = 0
  /\ r_log' = <<>>
  /\ r_installed' = {}
  /\ r_writes' = 0
  /\ UNCHANGED <<r_manifest, disk, cfgFile, plugin_path_by_hash, allPlugins,
                 globalConfig>>
  /\ RunFrame

\* Lines 544-549 and 560-565: no manifest file, or nothing in it.  The
\* configuration file is written empty and the run exits with exit(0).
NothingToInstall ==
  /\ r_pc = "manifest"
  /\ nothing_to_install(r_manifest)
  /\ cfgFile' = EmptyFile
  /\ RunEnds("nothing")
  /\ UNCHANGED <<r_manifest, disk>>
  /\ RunFrame

\* Lines 551-640: the manifest is loaded, the entries get their hash and
\* the installation root is scanned; or the manifest is refused.
LoadManifest ==
  /\ r_pc = "manifest"
  /\ ~nothing_to_install(r_manifest)
  /\ LET r == load_manifest(r_manifest.content)
     IN IF r.ok
        THEN /\ globalConfig' = SeedConfig
             /\ allPlugins' = add_hashes(r.all)
             /\ plugin_path_by_hash' = scan(disk, 1, <<>>)
             /\ r_i' = 1
             /\ r_pc' = "loop"
             /\ UNCHANGED <<r_outcome, r_start, r_log, r_installed, r_writes,
                            lock_file>>
        ELSE RunEnds("fatal")
  /\ UNCHANGED <<r_manifest, disk, cfgFile>>
  /\ RunFrame

\* A disabled plugin handled as one that is skipped and owns its directory.
install_plugin_disabled_as_skipped(plugin, snapshot) ==
  [plugin_path |-> None,
   config |-> DictGetOr(plugin, "pluginConfig", Map(<<>>)),
   snapshot |-> SelectSeq(snapshot,
                          LAMBDA kv : kv[2] # PluginPath(DictGet(plugin, "package")))]

\* install_plugin for a disabled plugin (lines 359-361): what it returns,
\* and the snapshot after the call.
install_plugin_disabled(plugin, snapshot) ==
  [plugin_path |-> None, config |-> Map(<<>>), snapshot |-> snapshot]

\* install_plugin, lines 359-361, then main, lines 647-648: a disabled
\* plugin.
SkipDisabled ==
  /\ r_pc = "loop"
  /\ r_i <= Len(allPlugins)
  /\ IsDisabled(Plugin)
  /\ LET r == install_plugin_disabled(Plugin, plugin_path_by_hash)
         merged == IF Truthy(r.config) THEN maybeMergeConfig(r.config, globalConfig)
                   ELSE MergeOk(globalConfig)
     IN IF merged.ok
        THEN /\ plugin_path_by_hash' = r.snapshot
             /\ globalConfig' = merged.node
             /\ r_i' = r_i + 1
             /\ UNCHANGED <<r_pc, r_outcome, r_start, r_log, r_installed, r_writes,
                            allPlugins, lock_file>>
        ELSE RunEnds("fatal")
  /\ UNCHANGED <<r_manifest, disk, cfgFile>>
  /\ RunFrame

\* What the log keeps of a decision.
LogRecord(decision) ==
  [i |-> r_i,
   present |-> HasKey(plugin_path_by_hash, DictGet(Plugin, "hash")),
   ondisk |-> disk[PluginPath(DictGet(Plugin, "package"))].hash = DictGet(Plugin, "hash"),
   persisted |-> disk[PluginPath(DictGet(Plugin, "package"))].digest,
   skip |-> decision.skip, reason |-> decision.reason,
   queried |-> decision.queried, local |-> decision.local]

\* should_skip_installation asks for the remote digest and skopeo fails.
InspectFails ==
  /\ r_pc = "loop"
  /\ r_i <= Len(allPlugins)
  /\ ~IsDisabled(Plugin)
  /\ should_skip_installation(Plugin, plugin_path_by_hash, disk).queried
  /\ RunEnds("fatal")
  /\ UNCHANGED <<r_manifest, disk, cfgFile>>
  /\ RunFrame

\* install_plugin, lines 367-373, then main, lines 647-648: the plugin is
\* skipped, its hash leaves the snapshot and its pluginConfig is merged.
SkipDownload ==
  /\ r_pc = "loop"
  /\ r_i <= Len(allPlugins)
  /\ ~IsDisabled(Plugin)
  /\ LET decision == should_skip_installation(Plugin, plugin_path_by_hash, disk)
         merged == MergeReturned(Plugin)
     IN /\ decision.skip
        /\ IF merged.ok
           THEN /\ r_log' = Append(r_log, LogRecord(decision))
                /\ plugin_path_by_hash' =
                     DictPop(plugin_path_by_hash, DictGet(Plugin, "hash"))
                /\ globalConfig' = merged.node
                /\ r_i' = r_i + 1
                /\ UNCHANGED <<r_pc, r_outcome, r_start, r_installed, r_writes,
                               allPlugins, lock_file>>
           ELSE RunEnds("fatal")
  /\ UNCHANGED <<r_manifest, disk, cfgFile>>
  /\ RunFrame

\* install_plugin, lines 367-377: the plugin is to be installed.
StartInstall ==
  /\ r_pc = "loop"
  /\ r_i <= Len(allPlugins)
  /\ ~IsDisabled(Plugin)
  /\ LET decision == should_skip_installation(Plugin, plugin_path_by_hash, disk)
     IN /\ ~decision.skip
        /\ r_log' = Append(r_log, LogRecord(decision))
  /\ r_pc' = "fetch"
  /\ UNCHANGED <<r_manifest, disk, cfgFile, r_i, plugin_path_by_hash, r_outcome,
                 r_start, r_installed, r_writes, allPlugins, globalConfig, lock_file>>
  /\ RunFrame

\* A variant of the requirement that never asks for an integrity value.
IntegrityMissing_never(plugin, skip_integrity_check) == FALSE

\* NpmPluginInstaller.install, line 272.
IntegrityMissing(plugin, skip_integrity_check) ==
  /\ ~IsOci(DictGet(plugin, "package"))
  /\ ~IsLocal(DictGet(plugin, "package"))
  /\ ~skip_integrity_check
  /\ ~HasKey(plugin, "integrity")

\* npm pack and the integrity check (lines 277-286), or skopeo copy (line
\* 183), went well.  SKIP_INTEGRITY_CHECK is read once per run (line 538)
\* and only the install of a registry package looks at it; a manifest holds
\* at most one, so its value is drawn here.
FetchArchive ==
  /\ r_pc = "fetch"
  /\ \E skipIntegrityCheck \in BOOLEAN : ~IntegrityMissing(Plugin, skipIntegrityCheck)
  /\ r_pc' = "remove"
  /\ UNCHANGED <<r_manifest, disk, cfgFile, r_i, plugin_path_by_hash, r_outcome,
                 r_start, r_log, r_installed, r_writes, allPlugins, globalConfig,
                 lock_file>>
  /\ RunFrame

\* No integrity value, a failing tool, or an integrity mismatch.
FetchFails ==
  /\ r_pc = "fetch"
  /\ RunEnds("fatal")
  /\ UNCHANGED <<r_manifest, disk, cfgFile>>
  /\ RunFrame

\* Lines 185-187 (the directory is removed) and 299-302 (removed and made
\* anew).
RemovePrevious ==
  /\ r_pc = "remove"
  /\ LET package == DictGet(Plugin, "package")
     IN disk' = [disk EXCEPT ![PluginPath(package)] =
                   IF IsOci(package) THEN Absent ELSE Partial]
  /\ r_pc' = "extract"
  /\ UNCHANGED <<r_manifest, cfgFile, r_i, plugin_path_by_hash, r_outcome,
                 r_start, r_log, r_installed, r_writes, allPlugins, globalConfig,
                 lock_file>>
  /\ RunFrame

\* A variant in which the failing extraction also runs the cleanup of lines
\* 652-656 before the run ends.
ExtractFails_then_cleanup ==
  /\ r_pc = "extract"
  /\ LET package == DictGet(Plugin, "package")
     IN \E left \in (IF IsOci(package) THEN {Absent, Partial} ELSE {Partial}) :
          disk' = remove_orphans([disk EXCEPT ![PluginPath(package)] = left],
                                 plugin_path_by_hash)
  /\ RunEnds("fatal")
  /\ UNCHANGED <<r_manifest, cfgFile>>
  /\ RunFrame

\* The extraction raises: nothing or a part of the plugin is in place.  The
\* archives of this sub-model hold no member named dynamic-plugin-config.hash;
\* the extraction sub-model has such archives.
ExtractFails ==
  /\ r_pc = "extract"
  /\ LET package == DictGet(Plugin, "package")
     IN \E left \in (IF IsOci(package) THEN {Absent, Partial} ELSE {Partial}) :
          disk' = [disk EXCEPT ![PluginPath(package)] = left]
  /\ RunEnds("fatal")
  /\ UNCHANGED <<r_manifest, cfgFile>>
  /\ RunFrame

\* A variant that leaves the snapshot as it is.
pop_plugin_path_none(snapshot, plugin_path) == snapshot

\* OciPluginInstaller.install, lines 247-249: every key of the snapshot whose
\* value is the plugin path is popped.
pop_plugin_path(snapshot, plugin_path) ==
  SelectSeq(snapshot, LAMBDA kv : kv[2] # plugin_path)

\* The install returns (lines 188-189 and 243-251, or 289-291),
\* install_plugin writes the fingerprint file (lines 380-382) and main
\* merges the pluginConfig (lines 647-648).
InstallDone ==
  /\ r_pc = "extract"
  /\ LET package == DictGet(Plugin, "package")
         plugin_path == PluginPath(package)
         merged == MergeReturned(Plugin)
     IN /\ disk' = [disk EXCEPT ![plugin_path] =
                      InstalledDir(DictGet(Plugin, "hash"),
                                   IF IsOci(package) THEN RemoteDigest ELSE NoDigest)]
        /\ IF merged.ok
           THEN /\ plugin_path_by_hash' =
                     IF IsOci(package)
                     THEN pop_plugin_path(plugin_path_by_hash, plugin_path)
                     ELSE plugin_path_by_hash
                /\ r_installed' = r_installed \cup {r_i}
                /\ globalConfig' = merged.node
                /\ r_i' = r_i + 1
                /\ r_pc' = "loop"
                /\ UNCHANGED <<r_outcome, r_start, r_log, r_writes, allPlugins,
                               lock_file>>
           ELSE RunEnds("fatal")
  /\ UNCHANGED <<r_manifest, cfgFile>>
  /\ RunFrame

\* Line 650.
DumpConfig ==
  /\ r_pc = "loop"
  /\ r_i > Len(allPlugins)
  /\ cfgFile' = [exists |-> TRUE, doc |-> yaml_safe_dump(globalConfig)]
  /\ r_writes' = r_writes + 1
  /\ r_pc' = "cleanup"
  /\ UNCHANGED <<r_manifest, disk, r_i, plugin_path_by_hash, r_outcome, r_start,
                 r_log, r_installed, allPlugins, globalConfig, lock_file>>
  /\ RunFrame

\* Lines 652-656, and the run is over: main returns and the interpreter
\* runs remove_lock.
Cleanup ==
  /\ r_pc = "cleanup"
  /\ disk' = remove_orphans(disk, plugin_path_by_hash)
  /\ r_pc' = "idle"
  /\ r_outcome' = "completed"
  /\ lock_file' = remove_lock(lock_file)
  /\ UNCHANGED <<r_manifest, cfgFile, r_i, plugin_path_by_hash, r_start, r_log,
                 r_installed, r_writes, allPlugins, globalConfig>>
  /\ RunFrame

\* SIGTERM: sys.exit(0) wherever the run is (line 535).
RunSigterm ==
  /\ r_pc # "idle"
  /\ RunEnds("sigterm")
  /\ UNCHANGED <<r_manifest, disk, cfgFile>>
  /\ RunFrame

RunNext ==
  \/ RunStart \/ NothingToInstall \/ LoadManifest \/ SkipDisabled \/ InspectFails \/ SkipDownload \/ StartInstall
  \/ FetchArchive \/ FetchFails \/ RemovePrevious \/ ExtractFails \/ InstallDone
  \/ DumpConfig \/ Cleanup \/ RunSigterm

InitRun == RunInit /\ HashIdle /\ ExIdle /\ NpmIdle /\ OciIdle
           /\ pc = <<>> /\ lock_owner = 0
           /\ created = <<>> /\ exit_cause = <<>> /\ exit_status = <<>>
           /\ m_sources = <<>> /\ m_s = 0 /\ m_k = 0 /\ m_phase = "idle"
           /\ c_frags = <<>> /\ c_i = 0 /\ c_state = "idle"
           /\ c_err = [kind |-> "", path |-> <<>>]

NextRun == RunNext

SpecRun == InitRun /\ [][NextRun]_vars

(***************************************************************************)
(* Registry install sub-model: NpmPluginInstaller.install and              *)
(* verify_package_integrity, for one plugin install_plugin has decided to  *)
(* install.                                                                *)
(***************************************************************************)

RECOGNIZED_ALGORITHMS == {"sha512", "sha384", "sha256"}

\* The integrity strings of the entries of this sub-model.
IntegrityStrings ==
  {"sha512-QUJD", "sha512-WFla", "sha256-QUJD", "md5-QUJD", "sha512QUJD",
   "sha512-QU-JD", "sha512-Q!"}

\* integrity.split('-').
split_dash(integrity) ==
  CASE integrity = "sha512-QUJD"  -> <<"sha512", "QUJD">>
    [] integrity = "sha512-WFla"  -> <<"sha512", "WFla">>
    [] integrity = "sha256-QUJD"  -> <<"sha256", "QUJD">>
    [] integrity = "md5-QUJD"     -> <<"md5", "QUJD">>
    [] integrity = "sha512QUJD"   -> <<"sha512QUJD">>
    [] integrity = "sha512-QU-JD" -> <<"sha512", "QU", "JD">>
    [] integrity = "sha512-Q!"    -> <<"sha512", "Q!">>

\* base64.b64decode(hash_digest, validate=True) does not raise: the text is
\* of the base64 alphabet and padded to a multiple of four.
b64decode_ok(hash_digest) == hash_digest \in {"QUJD", "WFla", "R0hJ"}

\* openssl dgst -<algorithm> -binary | openssl base64 -A of the archive npm
\* pack produced.
openssl_dgst(algorithm) ==
  CASE algorithm = "sha512" -> "QUJD"
    [] algorithm = "sha384" -> "R0hJ"
    [] algorithm = "sha256" -> "WFla"

\* verify_package_integrity: "ok" when it returns, else the exception.
verify_package_integrity(plugin) ==
  IF ~HasKey(plugin, "integrity") THEN "missing"
  ELSE LET integrity == DictGet(plugin, "integrity") IN
    IF ~IsStr(integrity) THEN "not_a_string"
    ELSE LET parts == split_dash(integrity) IN
      IF Len(parts) # 2 THEN "wrong_form"
      ELSE IF parts[1] \notin RECOGNIZED_ALGORITHMS THEN "unsupported_algorithm"
      ELSE IF ~b64decode_ok(parts[2]) THEN "invalid_base64"
      ELSE IF parts[2] # openssl_dgst(parts[1]) THEN "mismatch"
      ELSE "ok"

NpmPackages == {"pkg-a", "./local-c"}

NpmEntries ==
  { << <<"package", p>> >> : p \in NpmPackages }
  \cup { << <<"package", p>>, <<"integrity", v>> >> :
           p \in NpmPackages, v \in IntegrityStrings \cup {NotAString} }

\* What the root holds of the package before the install: nothing, or the
\* directory of an earlier install.
NpmRoots == { [archive |-> FALSE, dir |-> d] : d \in {"absent", "old"} }

NpmInit ==
  /\ n_plugin \in NpmEntries
  /\ n_skip \in BOOLEAN
  /\ n_root \in NpmRoots
  /\ n_start = n_root
  /\ n_pc = "install"
  /\ n_packs = 0
  /\ n_err = ""

NpmRaise(exception) ==
  /\ n_pc' = "fatal"
  /\ n_err' = exception

\* Lines 265-273: the integrity requirement.
RequireIntegrity ==
  /\ n_pc = "install"
  /\ IF IntegrityMissing(n_plugin, n_skip)
       THEN NpmRaise("no_integrity")
       ELSE n_pc' = "pack" /\ UNCHANGED n_err
  /\ UNCHANGED <<n_plugin, n_skip, n_root, n_start, n_packs>>
  /\ NpmFrame

\* Lines 277-282: npm pack, run in the installation root; it writes the
\* archive there when it succeeds.
NpmPack ==
  /\ n_pc = "pack"
  /\ n_packs' = n_packs + 1
  /\ \E returncode \in {0, 1} :
       IF returncode # 0
         THEN NpmRaise("npm_pack") /\ UNCHANGED n_root
         ELSE /\ n_root' = [n_root EXCEPT !.archive = TRUE]
              /\ n_pc' = "verify"
              /\ UNCHANGED n_err
  /\ UNCHANGED <<n_plugin, n_skip, n_start>>
  /\ NpmFrame

\* Lines 284-286: the archive is verified unless the package is local or the
\* check is switched off.
VerifyIntegrity ==
  /\ n_pc = "verify"
  /\ LET result == IF IsLocal(DictGet(n_plugin, "package")) \/ n_skip
                     THEN "ok" ELSE verify_package_integrity(n_plugin)
     IN IF result = "ok"
          THEN n_pc' = "extract" /\ UNCHANGED n_err
          ELSE NpmRaise(result)
  /\ UNCHANGED <<n_plugin, n_skip, n_root, n_start, n_packs>>
  /\ NpmFrame

\* Line 289, _extract_npm_package: the directory is removed and recreated,
\* the members are extracted and the archive is removed; an exception on the
\* way leaves the archive and what was extracted so far.
ExtractPackage ==
  /\ n_pc = "extract"
  /\ \E ok \in BOOLEAN :
       IF ok
         THEN /\ n_root' = [archive |-> FALSE, dir |-> "new"]
              /\ n_pc' = "done"
              /\ UNCHANGED n_err
         ELSE /\ n_root' = [archive |-> TRUE, dir |-> "partial"]
              /\ NpmRaise("extract")
  /\ UNCHANGED <<n_plugin, n_skip, n_start, n_packs>>
  /\ NpmFrame

NextNpm == RequireIntegrity \/ NpmPack \/ VerifyIntegrity \/ ExtractPackage

InitNpm == NpmInit /\ LockIdle /\ ManIdle /\ HashIdle /\ CfgIdle /\ ExIdle /\ RunIdle
           /\ OciIdle

SpecNpm == InitNpm /\ [][NextNpm]_vars

(***************************************************************************)
(* Container-image sub-model: the calls of install_plugin for the image    *)
(* plugins of one run that are to be installed; each call makes its        *)
(* installer, copies the image, clears the plugin directory, extracts the  *)
(* members under the in-image path and records the install.                *)
(***************************************************************************)

MaxOciPlugins == 2

MaxLayerMembers == 2

OciPackages == {"oci://img:v1!pa", "oci://img:v1!pb", "oci://img:latest!pa"}

\* package.split('!').
split_bang(package) ==
  CASE package = "oci://img:v1!pa"     -> <<"oci://img:v1", "pa">>
    [] package = "oci://img:v1!pb"     -> <<"oci://img:v1", "pb">>
    [] package = "oci://img:latest!pa" -> <<"oci://img:latest", "pa">>

OciImages == { split_bang(p)[1] : p \in OciPackages }

\* A path string: whether it begins with '/', and its components.
Path(abs, parts) == [abs |-> abs, parts |-> parts]

NoLink == Path(FALSE, <<>>)

\* A member of the layer archive (tarfile.TarInfo).
TarInfo(name, type, size, linkname) ==
  [name |-> name, type |-> type, size |-> size, linkname |-> linkname]

\* Every image of this sub-model has the same first layer; its members are
\* drawn from these.
LayerPool ==
  { TarInfo(<<"pa", "index.js">>, "file", 10, NoLink),
    TarInfo(<<"pb", "index.js">>, "file", 10, NoLink),
    TarInfo(<<"pa-extra", "x.js">>, "file", 10, NoLink),
    TarInfo(<<"pa", "big.bin">>, "file", max_entry_size + 1, NoLink),
    TarInfo(<<"pa", "..", "..", "up.txt">>, "file", 10, NoLink),
    TarInfo(<<"pa", "l">>, "sym", 0, Path(FALSE, <<"..", "..", "etc", "passwd">>)),
    TarInfo(<<"pa", "a">>, "sym", 0, Path(TRUE, <<"etc", "passwd">>)),
    TarInfo(<<"pa", "s">>, "sym", 0, Path(FALSE, <<"index.js">>)),
    TarInfo(<<"pa", "h">>, "lnk", 0, Path(FALSE, <<"pa", "index.js">>)),
    TarInfo(<<"pa", "o">>, "lnk", 0, Path(FALSE, <<"other", "secret">>)) }

\* member.name.startswith(plugin_path), on strings: "pa-extra/x.js" starts
\* with "pa".
name_startswith(name, plugin_path) ==
  \/ name[1] = plugin_path
  \/ <<name[1], plugin_path>> \in {<<"pa-extra", "pa">>}

\* The working directory of the process; os.path.realpath makes a relative
\* path absolute against it.
Cwd == <<"app">>

\* os.path.realpath(os.path.join(plugin_path, *os.path.split(linkname))): an
\* absolute link name replaces what is joined before it.
link_realpath(plugin_path, linkname) ==
  IF linkname.abs
    THEN Path(TRUE, realpath(linkname.parts))
    ELSE Path(TRUE, realpath(Cwd \o <<plugin_path>> \o linkname.parts))

\* realpath.startswith(plugin_path), on strings: a path that begins with '/'
\* does not start with a path that does not.
path_startswith(path, prefix) ==
  /\ path.abs = prefix.abs
  /\ startswith(path.parts, prefix.parts)

\* extract_plugin, lines 163-177: the members to extract, or the zip-bomb
\* exception.
RECURSIVE select_members(_, _, _, _)
select_members(members, plugin_path, i, filesToExtract) ==
  IF i > Len(members) THEN [raised |-> FALSE, files |-> filesToExtract]
  ELSE LET member == members[i] IN
    IF ~name_startswith(member.name, plugin_path)
      THEN select_members(members, plugin_path, i + 1, filesToExtract)
    ELSE IF member.size > max_entry_size
      THEN [raised |-> TRUE, files |-> filesToExtract]
    ELSE IF /\ member.type \in {"lnk", "sym"}
            /\ ~path_startswith(link_realpath(plugin_path, member.linkname),
                                Path(FALSE, <<plugin_path>>))
      THEN select_members(members, plugin_path, i + 1, filesToExtract)
    ELSE select_members(members, plugin_path, i + 1, Append(filesToExtract, member))

\* What lies under the installation root: paths relative to it.
OnDisk(member) == [path |-> member.name, type |-> member.type]

PluginFile(plugin_path, name) == [path |-> <<plugin_path, name>>, type |-> "file"]

\* tar.extractall(destination, members, filter='tar'), line 178: the filter
\* refuses a member whose name leads out of the destination, and the
\* members before it stay extracted.
RECURSIVE extractall(_, _, _)
extractall(files, dest, i) ==
  IF i > Len(files) THEN [raised |-> FALSE, dest |-> dest]
  ELSE IF ~Inside(realpath(Root \o files[i].name), Root)
    THEN [raised |-> TRUE, dest |-> dest]
  ELSE extractall(files, dest \cup {OnDisk(files[i])}, i + 1)

\* os.path.exists(plugin_directory), and what shutil.rmtree removes.
InDirectory(thing, plugin_path) == thing.path[1] = plugin_path

OciInit ==
  /\ o_packages \in { s \in SeqsUpTo(OciPackages, MaxOciPlugins) :
                        \A i, j \in DOMAIN s : s[i] = s[j] => i = j }
  /\ o_layer \in SeqsUpTo(LayerPool, MaxLayerMembers)
  /\ o_i = 1
  /\ o_pc = "create"
  /\ image_to_tarball = <<>>
  /\ o_copies = [image \in OciImages |-> 0]
  /\ o_files = <<>>
  /\ o_dest = {}
  /\ o_recorded = {}

OciPackage == o_packages[o_i]

OciImage == split_bang(OciPackage)[1]

OciPluginPath == split_bang(OciPackage)[2]

\* install_plugin line 364, create_plugin_installer, OciPluginInstaller
\* __init__ and OciDownloader __init__: every call of install_plugin makes
\* an installer with a downloader whose image_to_tarball is empty.
CreateInstaller ==
  /\ o_pc = "create"
  /\ o_i <= Len(o_packages)
  /\ image_to_tarball' = <<>>
  /\ o_pc' = "copy"
  /\ UNCHANGED <<o_packages, o_i, o_copies, o_layer, o_files, o_dest, o_recorded>>
  /\ OciFrame

\* main, lines 642-648: the loop over the plugins has ended.
OciLoopEnds ==
  /\ o_pc = "create"
  /\ o_i > Len(o_packages)
  /\ o_pc' = "done"
  /\ UNCHANGED <<o_packages, o_i, image_to_tarball, o_copies, o_layer, o_files,
                 o_dest, o_recorded>>
  /\ OciFrame

\* get_plugin_tar: skopeo copy runs when the image is not a key of
\* image_to_tarball; a non-zero exit raises.
GetPluginTar ==
  /\ o_pc = "copy"
  /\ IF HasKey(image_to_tarball, OciImage)
       THEN /\ o_pc' = "remove"
            /\ UNCHANGED <<image_to_tarball, o_copies>>
       ELSE /\ o_copies' = [o_copies EXCEPT ![OciImage] = @ + 1]
            /\ \E returncode \in {0, 1} :
                 IF returncode # 0
                   THEN o_pc' = "fatal" /\ UNCHANGED image_to_tarball
                   ELSE /\ image_to_tarball' = DictSet(image_to_tarball, OciImage, "layer")
                        /\ o_pc' = "remove"
  /\ UNCHANGED <<o_packages, o_i, o_layer, o_files, o_dest, o_recorded>>
  /\ OciFrame

\* download, lines 184-187: the previous plugin directory is removed.
RemoveDirectory ==
  /\ o_pc = "remove"
  /\ o_dest' = { thing \in o_dest : ~InDirectory(thing, OciPluginPath) }
  /\ o_recorded' = o_recorded \ {OciPluginPath}
  /\ o_pc' = "select"
  /\ UNCHANGED <<o_packages, o_i, image_to_tarball, o_copies, o_layer, o_files>>
  /\ OciFrame

\* extract_plugin, lines 161-177.
SelectMembers ==
  /\ o_pc = "select"
  /\ LET r == select_members(o_layer, OciPluginPath, 1, <<>>)
     IN IF r.raised
          THEN o_pc' = "fatal" /\ UNCHANGED o_files
          ELSE o_pc' = "extractall" /\ o_files' = r.files
  /\ UNCHANGED <<o_packages, o_i, image_to_tarball, o_copies, o_layer, o_dest,
                 o_recorded>>
  /\ OciFrame

\* extract_plugin, line 178.
ExtractAll ==
  /\ o_pc = "extractall"
  /\ LET r == extractall(o_files, o_dest, 1)
     IN /\ o_dest' = r.dest
        /\ o_pc' = IF r.raised THEN "fatal" ELSE "record"
  /\ UNCHANGED <<o_packages, o_i, image_to_tarball, o_copies, o_layer, o_files,
                 o_recorded>>
  /\ OciFrame

\* OciPluginInstaller.install lines 243-251 and install_plugin lines 379-386:
\* the digest file and the hash file are written into the plugin directory;
\* open() raises when the directory does not exist, and skopeo inspect may
\* exit non-zero.
RecordInstall ==
  /\ o_pc = "record"
  /\ \E returncode \in {0, 1} :
       IF \/ ~\E thing \in o_dest : InDirectory(thing, OciPluginPath)
          \/ returncode # 0
         THEN /\ o_pc' = "fatal"
              /\ UNCHANGED <<o_dest, o_recorded, o_i>>
         ELSE /\ o_dest' = o_dest \cup
                             { PluginFile(OciPluginPath, "dynamic-plugin-image.hash"),
                               PluginFile(OciPluginPath, "dynamic-plugin-config.hash") }
              /\ o_recorded' = o_recorded \cup {OciPluginPath}
              /\ o_i' = o_i + 1
              /\ o_pc' = "create"
  /\ UNCHANGED <<o_packages, image_to_tarball, o_copies, o_layer, o_files>>
  /\ OciFrame

NextOci ==
  \/ CreateInstaller
  \/ OciLoopEnds
  \/ GetPluginTar
  \/ RemoveDirectory
  \/ SelectMembers
  \/ ExtractAll
  \/ RecordInstall

InitOci == OciInit /\ LockIdle /\ ManIdle /\ HashIdle /\ CfgIdle /\ ExIdle /\ RunIdle
           /\ NpmIdle

SpecOci == InitOci /\ [][NextOci]_vars

(***************************************************************************)
(* Claims on the lock sub-model                                            *)
(***************************************************************************)

\* C1: at most one invocation at a time is executing its reconciliation pass
\* (the part of main after create_lock has returned), for any interleaving,
\* termination signals to waiting invocations included.
C1_MutualExclusion ==
  Cardinality({p \in Procs : pc[p] = "pass"}) <= 1

\* C5: when an invocation that created the lock marker exits through the
\* interpreter (normal completion, nothing-to-install exit, uncaught fatal error
\* or SIGTERM), the marker does not exist right after its exit; a fatal error
\* exits non-zero and a termination signal exits zero.
C5_LockReleasedOnExit ==
  [][\A p \in Procs :
       (pc[p] = "atexit" /\ pc'[p] = "exited" /\ created[p]) =>
          /\ ~lock_file'
          /\ exit_cause[p] = "fatal" => exit_status'[p] # 0
          /\ exit_cause[p] = "sigterm" => exit_status'[p] = 0]_vars

\* Two creators of the marker have exited, one on SIGTERM and one on a fatal
\* error, and the marker is gone.
C5_Witness ==
  \E p, q \in Procs :
    /\ created[p] /\ pc[p] = "exited" /\ exit_cause[p] = "sigterm"
    /\ created[q] /\ pc[q] = "exited" /\ exit_cause[q] = "fatal"
    /\ ~lock_file

(***************************************************************************)
(* Claims on the manifest sub-model                                        *)
(***************************************************************************)

RECURSIVE Flatten(_, _)
Flatten(srcs, i) ==
  IF i > Len(srcs) THEN <<>> ELSE srcs[i].plugins \o Flatten(srcs, i + 1)

\* The plugins main has passed to mergePlugin so far, in order.
Processed ==
  IF m_s > Len(m_sources) THEN Flatten(m_sources, 1)
  ELSE Flatten(SubSeq(m_sources, 1, m_s - 1), 1)
         \o SubSeq(m_sources[m_s].plugins, 1, m_k - 1)

\* C6: after the sources are read in order (includes in list order, then the
\* primary list), the resolved entry of a package holds every field set by any
\* source, each with the value of the latest source that sets it; package is
\* never replaced; the entries are ordered by first appearance.
C6_OverrideSemantics ==
  LET flat == Processed
      pkgs == {DictGet(flat[i], "package") : i \in DOMAIN flat}
      Idx(p) == {i \in DOMAIN flat : DictGet(flat[i], "package") = p}
      First(p) == CHOOSE i \in Idx(p) : \A j \in Idx(p) : i <= j
      Last(p, k) == CHOOSE i \in Idx(p) :
                      /\ HasKey(flat[i], k)
                      /\ \A j \in Idx(p) : HasKey(flat[j], k) => j <= i
  IN  /\ DictKeys(allPlugins) = pkgs
      /\ \A a, b \in DOMAIN allPlugins :
           a < b => First(allPlugins[a][1]) < First(allPlugins[b][1])
      /\ \A p \in pkgs :
           LET r == DictGet(allPlugins, p)
           IN  /\ DictKeys(r) = UNION {DictKeys(flat[i]) : i \in Idx(p)}
               /\ \A k \in DictKeys(r) : DictGet(r, k) = DictGet(flat[Last(p, k)], k)
               /\ DictGet(r, "package") = p

\* The spec's example: an include with {package: p, pluginConfig: {a: 1}} and a
\* primary list with {package: p, disabled: true} resolve to an entry with both.
C6_Witness ==
  /\ m_phase = "done"
  /\ Len(m_sources) = 2
  /\ m_sources[1].plugins = << << <<"package", "pkg-a">>, <<"pluginConfig", CfgA1>> >> >>
  /\ m_sources[2].plugins = << << <<"package", "pkg-a">>, <<"disabled", TRUE>> >> >>
  /\ allPlugins = << <<"pkg-a", << <<"package", "pkg-a">>, <<"pluginConfig", CfgA1>>,
                                   <<"disabled", TRUE>> >> >> >>

(***************************************************************************)
(* Claims on the fingerprint sub-model                                     *)
(***************************************************************************)

\* Whether the two entries differ in field k (set in one only, or set to
\* different values).
FieldDiffers(e1, e2, k) ==
  \/ HasKey(e1, k) # HasKey(e2, k)
  \/ HasKey(e1, k) /\ HasKey(e2, k) /\ DictGet(e1, k) # DictGet(e2, k)

\* C8: when the install decisions start, every resolved entry carries a hash
\* computed from the entry as resolved (overrides applied); two entries that
\* differ only in pluginConfig or in the order of their keys have the same
\* hash, and two that differ in integrity, package or pullPolicy have different
\* hashes.
C8_FingerprintStability ==
  h_phase = "decide" =>
    LET r1 == h_entries[1]
        r2 == h_entries[2]
        b1 == DictPop(r1, "hash")
        b2 == DictPop(r2, "hash")
    IN  /\ HasKey(r1, "hash") /\ HasKey(r2, "hash")
        /\ (\A k \in (DictKeys(b1) \cup DictKeys(b2)) \ {"pluginConfig"} :
              ~FieldDiffers(b1, b2, k))
             => DictGet(r1, "hash") = DictGet(r2, "hash")
        /\ (\E k \in {"integrity", "package", "pullPolicy"} : FieldDiffers(b1, b2, k))
             => DictGet(r1, "hash") # DictGet(r2, "hash")

\* Two entries with the same fields in different key order and different
\* pluginConfig, the first after an override, with equal hashes.
C8_Witness ==
  /\ h_phase = "decide"
  /\ h_override # <<>>
  /\ HasKey(h_entries[1], "integrity") /\ HasKey(h_entries[1], "pluginConfig")
  /\ h_entries[1][1][1] # h_entries[2][1][1]
  /\ FieldDiffers(h_entries[1], h_entries[2], "pluginConfig")
  /\ DictGet(h_entries[1], "hash") = DictGet(h_entries[2], "hash")

\* Two entries that differ in pullPolicy only, with different hashes.
C8_WitnessDiffers ==
  /\ h_phase = "decide"
  /\ FieldDiffers(h_entries[1], h_entries[2], "pullPolicy")
  /\ ~FieldDiffers(h_entries[1], h_entries[2], "package")
  /\ DictGet(h_entries[1], "hash") # DictGet(h_entries[2], "hash")

(***************************************************************************)
(* Claims on the configuration sub-model                                   *)
(***************************************************************************)

\* Every node of a document with its key path from the root.
RECURSIVE NodesOf(_)
NodesOf(n) ==
  {[path |-> <<>>, t |-> n.t, v |-> n.v]} \cup
  UNION { { [path |-> <<n.items[i][1]>> \o a.path, t |-> a.t, v |-> a.v] :
            a \in NodesOf(n.items[i][2]) } : i \in DOMAIN n.items }

LeavesOf(n) == {a \in NodesOf(n) : a.t = "leaf"}

\* The documents merged so far: the seed, then every fragment the loop has
\* handed to merge.
MergedSources ==
  <<SeedConfig>> \o
  SelectSeq(SubSeq(c_frags, 1, c_i), LAMBDA f : Truthy(f) /\ IsDict(f))

LeafConflict(f, g) ==
  \E a \in LeavesOf(f), b \in LeavesOf(g) : a.path = b.path /\ a.v # b.v

ShapeClash(f, g) ==
  \E a \in NodesOf(f), b \in NodesOf(g) : a.path = b.path /\ a.t # b.t

\* The key paths at which fragment f sets a leaf that an earlier source
\* holds differently.
ClashPaths(f, earlier) ==
  { a.path : a \in { l \in LeavesOf(f) :
      \E j \in DOMAIN earlier : \E b \in NodesOf(earlier[j]) :
        b.path = l.path /\ (b.t = "map" \/ b.v # l.v) } }

\* C7: two plugins' fragments that set the same leaf key path to different
\* values (the seeded dynamicPlugins.rootDirectory included) end the run
\* fatally, and when the clash is at most two keys deep the error names the
\* full key path; fragments that agree wherever they overlap merge, and the
\* resulting document holds exactly the union of their leaves.
C7_ConflictDetection ==
  LET srcs == MergedSources
      n == Len(srcs)
  IN /\ (\E j, k \in 1..n : LeafConflict(srcs[j], srcs[k])) => c_state = "fatal"
     /\ (c_state = "fatal" /\ c_err.kind = "InstallException") =>
          LET clashes == ClashPaths(srcs[n], SubSeq(srcs, 1, n - 1))
          IN (\A q \in clashes : Len(q) <= 2) => c_err.path \in clashes
     /\ c_state = "fatal" =>
          \E j, k \in 1..n : LeafConflict(srcs[j], srcs[k]) \/ ShapeClash(srcs[j], srcs[k])
     /\ c_state = "done" =>
          LeavesOf(globalConfig) = UNION {LeavesOf(srcs[j]) : j \in 1..n}

\* The two examples of the claim, and the seeded key, have happened.
C7_Witness ==
  \/ /\ c_frags = << M1("x", M1("y", Leaf("1"))), M1("x", M1("y", Leaf("2"))) >>
     /\ c_state = "fatal"
     /\ c_err = [kind |-> "InstallException", path |-> <<"x", "y">>]
  \/ /\ c_frags = << M1("x", M1("y", Leaf("1"))), M1("x", M1("z", Leaf("2"))) >>
     /\ c_state = "done"
     /\ DictGet(globalConfig.items, "x") = M2("y", Leaf("1"), "z", Leaf("2"))
  \/ /\ c_frags = << M1("dynamicPlugins", M1("rootDirectory", Leaf("other-root"))) >>
     /\ c_state = "fatal"
     /\ c_err.path = <<"dynamicPlugins", "rootDirectory">>

(***************************************************************************)
(* Claims on the extraction sub-model                                      *)
(***************************************************************************)

\* A regular file named outside package/, or a link whose target, resolved
\* against the package directory, lies outside that directory.
Offending(member) ==
  \/ member.type = "reg" /\ ~HasPackagePrefix(member.name)
  \/ /\ member.type \in {"sym", "lnk"}
     /\ ~Inside(realpath(Directory \o removeprefix(member.linkname)), Directory)

\* C9: once the extraction of an archive that holds an offending member has
\* ended, it has ended fatally and nothing of the archive lies in the
\* package directory.
C9_ArchiveSafety ==
  (x_state \in {"done", "fatal"} /\ \E i \in DOMAIN x_members : Offending(x_members[i]))
    => (x_state = "fatal" /\ x_dir = {})

\* The part of C9 about the link target alone: an archive with an offending
\* link never extracts to the end.
C9_LinkRejected ==
  (\E i \in DOMAIN x_members : Offending(x_members[i])) => x_state # "done"

(***************************************************************************)
(* Claims on the run sub-model                                             *)
(***************************************************************************)

\* The run has just completed; what it started from and did is still held.
Completed == r_pc = "idle" /\ r_outcome = "completed"

EntryAt(i) == allPlugins[i][2]

PackageAt(i) == DictGet(EntryAt(i), "package")

HashAt(i) == DictGet(EntryAt(i), "hash")

DirAt(i) == PluginPath(PackageAt(i))

Enabled(i) == ~IsDisabled(EntryAt(i))

\* No other enabled entry of the manifest installs into the directory of
\* entry i.
Unshared(i) ==
  \A j \in DOMAIN allPlugins : (j # i /\ Enabled(j)) => DirAt(j) # DirAt(i)

\* The directory of entry i carried the entry's fingerprint when the run
\* began.
CarriedAtStart(i) == r_start.disk[DirAt(i)].hash = HashAt(i)

\* Entry i goes through the generic strategy with pullPolicy Always or
\* forceDownload.
ForcedGeneric(i) ==
  /\ ~IsOci(PackageAt(i))
  /\ \/ DictGetOr(EntryAt(i), "pullPolicy", "IfNotPresent") = "Always"
     \/ DictGetOr(EntryAt(i), "forceDownload", FALSE)

\* The package of the entry a fingerprint was computed from.
PackageOfHash(h) == DictGet(h[2], "package")

C4_InstalledKept ==
  Completed =>
    \A i \in DOMAIN allPlugins :
      (Enabled(i) /\ Unshared(i)) =>
        (disk[DirAt(i)].exists /\ disk[DirAt(i)].hash = HashAt(i))

\* The same for the entries the run skipped or installed through the
\* container-image installer only.
C4_InstalledKeptOci ==
  Completed =>
    \A i \in DOMAIN allPlugins :
      (Enabled(i) /\ Unshared(i) /\ (IsOci(PackageAt(i)) \/ i \notin r_installed)) =>
        (disk[DirAt(i)].exists /\ disk[DirAt(i)].hash = HashAt(i))

\* C10: for an image entry without pullPolicy that is installed when its
\* turn comes: with the latest tag the remote digest is queried, the entry
\* is skipped (digest_unchanged) exactly when the digest file holds the
\* remote digest, and is reinstalled otherwise; with another tag it is
\* skipped without a query.
C10_LatestDefault ==
  \A k \in DOMAIN r_log :
    LET rec == r_log[k]
        plugin == EntryAt(rec.i)
        package == DictGet(plugin, "package")
    IN (IsOci(package) /\ ~HasKey(plugin, "pullPolicy") /\ rec.ondisk) =>
         IF HasLatestTag(package)
         THEN /\ rec.queried
              /\ rec.skip <=> (rec.persisted = RemoteDigest)
              /\ rec.skip => rec.reason = "digest_unchanged"
              /\ ~rec.skip =>
                   \/ rec.i \in r_installed
                   \/ r_i = rec.i /\ r_pc \in {"fetch", "remove", "extract"}
         ELSE rec.skip /\ ~rec.queried /\ rec.reason = "already_installed"

\* A latest-tagged entry without pullPolicy, installed with an older
\* digest on file, has been reinstalled.
C10_Witness ==
  \E k \in DOMAIN r_log :
    LET rec == r_log[k]
    IN /\ HasLatestTag(PackageAt(rec.i))
       /\ ~HasKey(EntryAt(rec.i), "pullPolicy")
       /\ rec.ondisk /\ rec.queried /\ ~rec.skip
       /\ rec.persisted = "d-old"
       /\ rec.i \in r_installed

\* The other cases of C10 have happened too.
C10_WitnessSkips ==
  \E k \in DOMAIN r_log :
    LET rec == r_log[k]
    IN /\ IsOci(PackageAt(rec.i))
       /\ ~HasKey(EntryAt(rec.i), "pullPolicy")
       /\ rec.ondisk /\ rec.skip
       /\ HasLatestTag(PackageAt(rec.i)) => rec.reason = "digest_unchanged"

\* The plugin at hand is enabled and its turn has come.
AtDecision == r_pc = "loop" /\ r_i <= Len(allPlugins) /\ ~IsDisabled(Plugin)

\* The entry has pullPolicy Always or forceDownload set.
Forced(plugin) ==
  \/ DictGetOr(plugin, "pullPolicy", "IfNotPresent") = "Always"
  \/ DictGetOr(plugin, "forceDownload", FALSE)

\* C11: when the turn of an enabled registry or local-path entry comes (and
\* the run is not interrupted), the decision is (false, not_installed) if
\* the entry's fingerprint is not a key of the snapshot, else (false,
\* force_download) if pullPolicy is Always or forceDownload is set, else
\* (true, already_installed); a decision not to skip leaves the snapshot as
\* it is, and after a decision to skip the only change is the removal of
\* the entry's fingerprint by install_plugin.
C11_GenericSkipDecision ==
  [][(AtDecision /\ ~IsOci(DictGet(Plugin, "package")) /\ r_outcome' # "sigterm") =>
       LET plugin == Plugin
           present == HasKey(plugin_path_by_hash, DictGet(plugin, "hash"))
           rec == r_log'[Len(r_log')]
       IN IF ~present \/ Forced(plugin)
          THEN /\ r_pc' = "fetch"
               /\ Len(r_log') = Len(r_log) + 1
               /\ ~rec.skip
               /\ rec.reason = IF ~present THEN "not_installed" ELSE "force_download"
               /\ plugin_path_by_hash' = plugin_path_by_hash
          ELSE /\ r_pc' # "fetch"
               /\ \/ r_outcome' = "fatal"
                  \/ /\ Len(r_log') = Len(r_log) + 1
                     /\ rec.skip
                     /\ rec.reason = "already_installed"
                     /\ plugin_path_by_hash' =
                          DictPop(plugin_path_by_hash, DictGet(plugin, "hash"))]_vars

\* A registry entry found installed is installed again because its
\* pullPolicy is Always or its forceDownload is set.
C11_Witness ==
  \E k \in DOMAIN r_log :
    LET rec == r_log[k]
    IN /\ ~IsOci(PackageAt(rec.i))
       /\ rec.present /\ ~rec.skip /\ rec.reason = "force_download"
       /\ Forced(EntryAt(rec.i))
       /\ rec.i \in r_installed

\* A registry entry found installed without either is skipped.
C11_WitnessSkips ==
  \E k \in DOMAIN r_log :
    LET rec == r_log[k]
    IN /\ ~IsOci(PackageAt(rec.i))
       /\ rec.present /\ rec.skip /\ rec.reason = "already_installed"
       /\ ~Forced(EntryAt(rec.i))

\* C12: a run that finds no manifest file, or a manifest file whose parsed
\* content is None or the empty string, and is not interrupted, writes the
\* configuration file empty, leaves every plugin directory as it was when
\* the run began, and exits with status zero with the lock marker removed;
\* no entry is processed.
C12_NothingToInstall ==
  [][(/\ r_pc = "manifest"
      /\ \/ ~r_manifest.file
         \/ r_manifest.content \in {ContentNone, ContentStr("")}
      /\ r_outcome' # "sigterm") =>
       /\ cfgFile' = EmptyFile
       /\ disk' = r_start.disk
       /\ r_pc' = "idle"
       /\ r_outcome' = "nothing"
       /\ ExitStatusOf(r_outcome') = 0
       /\ ~lock_file']_vars

\* A run with nothing to install has ended on a root that holds an
\* installed plugin and had a configuration file with other content.
C12_Witness ==
  /\ r_pc = "idle" /\ r_outcome = "nothing"
  /\ r_manifest.file /\ r_manifest.content = ContentNone
  /\ cfgFile = EmptyFile
  /\ disk["pkg-a-1.0.0"].hash # NoHash /\ disk["pa"].hash # NoHash
  /\ ~lock_file

\* The pluginConfig of entry i, if it is one that main merges.
FragmentAt(i) ==
  LET plugin_config == DictGetOr(EntryAt(i), "pluginConfig", Map(<<>>))
  IN IF Enabled(i) /\ IsDict(plugin_config) THEN plugin_config ELSE Map(<<>>)

\* C13: when a run has completed, the configuration file exists, was
\* written once by the run, and holds exactly the nodes of the seed
\* {dynamicPlugins: {rootDirectory: dynamic-plugins-root}} and of the
\* pluginConfig of every enabled entry, installed or skipped; nothing of
\* the earlier content and nothing of a disabled entry is in it.
C13_GlobalConfigContent ==
  Completed =>
    /\ cfgFile.exists
    /\ r_writes = 1
    /\ NodesOf(cfgFile.doc) =
         NodesOf(SeedConfig) \cup UNION {NodesOf(FragmentAt(i)) : i \in DOMAIN allPlugins}

\* A run has completed that installed an entry with a pluginConfig and
\* skipped another with a pluginConfig, over an earlier configuration file.
C13_Witness ==
  /\ Completed
  /\ r_start.cfg = OldConfigFile
  /\ \E i \in r_installed : FragmentAt(i) # Map(<<>>)
  /\ \E k \in DOMAIN r_log :
       /\ r_log[k].skip
       /\ FragmentAt(r_log[k].i) \notin {Map(<<>>), CfgA1}
  /\ cfgFile.doc =
       Map(<< <<"a", Leaf("1")>>,
              <<"dynamicPlugins", Map(<< <<"rootDirectory", Leaf("dynamic-plugins-root")>>,
                                         <<"x", Leaf("1")>> >>)>> >>)

\* Some entry of the list has a package that is not a string.
HasBadPackage(field) ==
  \E j \in DOMAIN field.items : ~IsStr(DictGet(field.items[j], "package"))

\* An item of includes that is not a string, or names an existing file
\* that is not a mapping, or whose plugins is not a list, or that holds an
\* entry whose package is not a string.
BadInclude(include) ==
  \/ include.t # "str"
  \/ /\ include.exists
     /\ \/ include.content.t # "map"
        \/ include.content.plugins.t # "list"
        \/ HasBadPackage(include.content.plugins)

\* The manifest errors of C14.
Malformed(content) ==
  \/ content.t # "map"
  \/ content.includes.t \notin {"missing", "list"}
  \/ content.plugins.t \notin {"missing", "list"}
  \/ \E i \in DOMAIN content.includes.items : BadInclude(content.includes.items[i])
  \/ HasBadPackage(content.plugins)

\* C14: a run that finds a manifest with content (not None, not '') that
\* is not a mapping, or whose includes or plugins is not a list, or with an
\* include item that is not a string, or with an existing included file
\* that is not a mapping or whose plugins is not a list, or with an entry
\* whose package is not a string, ends (unless interrupted) with a fatal
\* error and a non-zero exit; the plugin directories and the configuration
\* file are then as they were when the run began.
C14_ManifestErrors ==
  [][(/\ r_pc = "manifest"
      /\ r_manifest.file
      /\ r_manifest.content \notin {ContentNone, ContentStr("")}
      /\ Malformed(r_manifest.content)
      /\ r_outcome' # "sigterm") =>
       /\ r_pc' = "idle"
       /\ r_outcome' = "fatal"
       /\ ExitStatusOf(r_outcome') # 0
       /\ disk' = r_start.disk
       /\ cfgFile' = r_start.cfg]_vars

\* A run has ended fatally on an included file with an entry whose package
\* is not a string, read after a well-formed include; the installed
\* plugins and the earlier configuration file are still there.
C14_Witness ==
  /\ r_pc = "idle" /\ r_outcome = "fatal"
  /\ r_manifest.content.t = "map"
  /\ Len(r_manifest.content.includes.items) = 2
  /\ ~BadInclude(r_manifest.content.includes.items[1])
  /\ HasBadPackage(r_manifest.content.includes.items[2].content.plugins)
  /\ disk["pkg-a-1.0.0"].hash # NoHash /\ disk["pa"].hash # NoHash
  /\ cfgFile = OldConfigFile

\* The other manifest errors have ended runs too.
C14_WitnessShapes ==
  /\ r_pc = "idle" /\ r_outcome = "fatal"
  /\ \/ r_manifest.content.t = "list"
     \/ r_manifest.content.plugins.t = "str"

\* C16: the turn of a disabled entry (if the run is not interrupted) takes
\* no skip decision, installs nothing, and leaves the configuration
\* accumulator and the fingerprint snapshot as they are; so when the run
\* has completed, a directory that carried a fingerprint when the run began
\* and into which only disabled entries install is gone.
C16_DisabledInert ==
  /\ [][(/\ r_pc = "loop" /\ r_i <= Len(allPlugins) /\ IsDisabled(Plugin)
         /\ r_outcome' # "sigterm") =>
          /\ r_pc' = "loop" /\ r_i' = r_i + 1
          /\ r_log' = r_log
          /\ r_installed' = r_installed
          /\ disk' = disk
          /\ globalConfig' = globalConfig
          /\ plugin_path_by_hash' = plugin_path_by_hash]_vars
  /\ [](Completed =>
         \A i \in DOMAIN allPlugins :
           (~Enabled(i) /\ r_start.disk[DirAt(i)].hash # NoHash /\ Unshared(i))
             => ~disk[DirAt(i)].exists)

\* A run has completed whose manifest disables, with a pluginConfig, a
\* package that was installed: the directory is gone and the configuration
\* file holds the seed alone.
C16_Witness ==
  /\ Completed
  /\ \E i \in DOMAIN allPlugins :
       /\ ~Enabled(i) /\ HasKey(EntryAt(i), "pluginConfig")
       /\ r_start.disk[DirAt(i)].hash # NoHash
       /\ ~disk[DirAt(i)].exists
  /\ cfgFile.doc = SeedConfig

(***************************************************************************)
(* Claims on the lock sub-model, continued                                 *)
(***************************************************************************)

\* Invocation p was killed while the marker it created lay on disk, and the
\* marker is still there.
HolderCrashed(p) == pc[p] = "crashed" /\ lock_file /\ lock_owner = p

\* C15: once an invocation that created the marker has crashed with the
\* marker on disk, the marker stays and no invocation begins its pass,
\* whatever happens to the other invocations: in every step taken while the
\* crashed holder's marker is on disk the marker is kept and no invocation
\* enters its pass.
C15_CrashedHolderBlocks ==
  [][\A p \in Procs :
       HolderCrashed(p) =>
         /\ HolderCrashed(p)'
         /\ \A q \in Procs : pc'[q] = "pass" => pc[q] = "pass"]_vars

(***************************************************************************)
(* Claims on the registry install sub-model                                *)
(***************************************************************************)

NoIntegrityValue == ~HasKey(n_plugin, "integrity")

IntegrityRequired == ~IsLocal(DictGet(n_plugin, "package")) /\ ~n_skip

\* C17: once install has acted on an entry without an integrity value: if the
\* package is not local and integrity checking is not switched off, the
\* install has raised, npm pack has not been run and the installation root
\* is as it was; if the package is local or the checking is switched off, the
\* install has gone on to npm pack and no integrity exception is raised.
C17_MissingIntegrity ==
  (n_pc # "install" /\ NoIntegrityValue) =>
    IF IntegrityRequired
      THEN n_pc = "fatal" /\ n_err = "no_integrity" /\ n_packs = 0 /\ n_root = n_start
      ELSE /\ n_pc = "pack" \/ n_packs = 1
           /\ n_err \in {"", "npm_pack", "extract"}

C17_Witness ==
  /\ NoIntegrityValue /\ IntegrityRequired
  /\ n_pc = "fatal" /\ n_start.dir = "old"

C17_WitnessProceeds ==
  /\ NoIntegrityValue /\ ~IntegrityRequired
  /\ n_pc = "done" /\ n_packs = 1

(***************************************************************************)
(* Claims on the container-image sub-model                                 *)
(***************************************************************************)

\* C18: within one run, skopeo copy is run at most once for each image
\* reference, also when several plugins of the run come from the same image.
C18_ImageCopiedOnce ==
  \A image \in OciImages : o_copies[image] <= 1

\* The directory a member lies in, from the installation root.
MemberDirectory(member) == SubSeq(member.name, 1, Len(member.name) - 1)

\* Where the link of a member leads, from the installation root: a symbolic
\* link is relative to the directory of the member, a hard link names
\* another member of the archive.
LinkTarget(member) ==
  IF member.linkname.abs THEN realpath(member.linkname.parts)
  ELSE IF member.type = "sym"
    THEN realpath(Root \o MemberDirectory(member) \o member.linkname.parts)
    ELSE realpath(Root \o member.linkname.parts)

\* A symbolic or hard link under the in-image path whose target lies outside
\* the plugin's destination directory.
EscapingLink(member, plugin_path) ==
  /\ member.name[1] = plugin_path
  /\ member.type \in {"sym", "lnk"}
  /\ ~Inside(LinkTarget(member), Root \o <<plugin_path>>)

\* C20: no plugin is recorded as installed from a layer that holds, under the
\* plugin's in-image path, a link whose target lies outside the plugin's
\* destination: such a link makes the install fail.
C20_LinkEscapeFatal ==
  \A plugin_path \in o_recorded :
    ~\E i \in DOMAIN o_layer : EscapingLink(o_layer[i], plugin_path)

(***************************************************************************)
(* Claims on the run sub-model, continued                                  *)
(***************************************************************************)

\* The step is the fatal end of a run while a manifest entry is processed.
EntryFailsFatally ==
  /\ r_pc \in {"loop", "fetch", "remove", "extract"}
  /\ r_i \in DOMAIN allPlugins
  /\ r_pc' = "idle"
  /\ r_outcome' = "fatal"

\* The directories the run has written so far: the ones of the entries it
\* installed and the one of the entry whose extraction is under way.
WrittenDirs ==
  {DirAt(j) : j \in r_installed} \cup (IF r_pc = "extract" THEN {DirAt(r_i)} ELSE {})

\* Entry j is installed after the step, with its fingerprint file.
StaysInstalled(j) ==
  disk'[DirAt(j)] =
    InstalledDir(HashAt(j), IF IsOci(PackageAt(j)) THEN RemoteDigest ELSE NoDigest)

\* A later entry of the run was installed, or was being installed, into the
\* directory of entry j.
Overwritten(j) ==
  \E k \in (j + 1)..r_i :
    /\ DirAt(k) = DirAt(j)
    /\ k \in r_installed \/ (k = r_i /\ r_pc = "extract")

\* What a fatal end leaves alone: the run is over (no later entry is
\* processed), the configuration file is as the run found it and was not
\* written, no directory but the ones the run installed into has changed (no
\* orphan is deleted), and the exit status is not zero.
FatalStops ==
  /\ r_pc' = "idle"
  /\ r_writes = 0 /\ cfgFile' = r_start.cfg
  /\ \A d \in Dirs \ WrittenDirs : disk'[d] = r_start.disk[d]
  /\ ExitStatusOf(r_outcome') # 0

\* C19 as stated: when the processing of an entry fails fatally, the pass
\* stops as above and every entry installed earlier in the run is still
\* installed with its fingerprint file.
C19_FatalStopsLiteral ==
  [][EntryFailsFatally =>
       /\ FatalStops
       /\ \A j \in r_installed : StaysInstalled(j)]_vars

\* C19: when the processing of an entry fails fatally, the pass stops as
\* above, and every entry installed earlier in the run is still installed
\* with its fingerprint file unless a later entry of the run was installed,
\* or was being installed, into the same directory.
C19_FatalStops ==
  [][EntryFailsFatally =>
       /\ FatalStops
       /\ \A j \in r_installed : ~Overwritten(j) => StaysInstalled(j)]_vars

\* A run has ended fatally in the extraction of the registry package, and the
\* image plugin it installed before is in place.
C19_Witness ==
  /\ r_pc = "idle" /\ r_outcome = "fatal"
  /\ disk["pkg-a-1.0.0"] = Partial
  /\ disk["pa"].exists /\ disk["pa"].digest = RemoteDigest
  /\ disk["pa"].hash # PluginHash(BaseEntry("oci://img:v1!pa"))

\* The step is the return of a successful container-image install of the
\* entry at hand (main goes on to the next entry).
OciInstallReturns ==
  /\ r_pc = "extract" /\ r_pc' = "loop"
  /\ IsOci(PackageAt(r_i))

\* The paths the snapshot maps some fingerprint to.
SnapshotPaths(snapshot) == { snapshot[k][2] : k \in DOMAIN snapshot }

\* The entries of the snapshot that map to another path than P, in order.
OtherEntries(snapshot, P) == SelectSeq(snapshot, LAMBDA kv : kv[2] # P)

\* C21: right after a successful container-image install into P the snapshot
\* maps no fingerprint to P and its entries for other paths are as before;
\* and the cleanup at the end of the run leaves the directory of every
\* container-image entry the run installed in place.
C21_OciPurgesStale ==
  [][/\ OciInstallReturns =>
          /\ DirAt(r_i) \notin SnapshotPaths(plugin_path_by_hash')
          /\ OtherEntries(plugin_path_by_hash', DirAt(r_i))
               = OtherEntries(plugin_path_by_hash, DirAt(r_i))
     /\ (r_pc = "cleanup" /\ r_outcome' = "completed") =>
          \A i \in r_installed :
            IsOci(PackageAt(i)) =>
              /\ DirAt(i) \notin SnapshotPaths(plugin_path_by_hash)
              /\ disk'[DirAt(i)] = disk[DirAt(i)]
              /\ disk'[DirAt(i)].exists]_vars

\* A completed run reinstalled the image plugin over a directory that
\* carried a fingerprint when the run began, next to a registry plugin that
\* was installed and is skipped.
C21_Witness ==
  /\ Completed
  /\ \E i \in r_installed :
       /\ IsOci(PackageAt(i))
       /\ r_start.disk[DirAt(i)].hash # NoHash
       /\ disk[DirAt(i)].hash = HashAt(i)
  /\ r_start.disk["pkg-a-1.0.0"].exists

(***************************************************************************)
(* Claims on the configuration sub-model, continued                        *)
(***************************************************************************)

\* C22: when merge raises on a leaf that both sides define differently, at
\* whatever depth, the key path the error names is the full path of that
\* leaf from the root of the document, every enclosing key included.
C22_ConflictPath ==
  (c_state = "fatal" /\ c_err.kind = "InstallException") =>
    c_err.path \in ClashPaths(c_frags[c_i], SubSeq(MergedSources, 1, Len(MergedSources) - 1))

(***************************************************************************)
(* Claims on the lock sub-model, ownership and progress                    *)
(***************************************************************************)

\* The step is the interpreter exit of invocation p.
Exits(p) == pc[p] = "atexit" /\ pc'[p] = "exited"

\* C23: the marker is removed only by the invocation that created it: a
\* step that removes the marker is the exit of the marker's creator, so an
\* invocation that exits while it waits leaves the holder's marker in place.
C23_MarkerOwnership ==
  [][(lock_file /\ ~lock_file') => \E p \in Procs : Exits(p) /\ lock_owner = p]_vars

\* No invocation has been ended by a signal or a kill before it created the
\* marker: the waiting invocations keep running.
WaitersKeepRunning ==
  \A q \in Procs : exit_cause[q] \in {"sigterm", "crash"} => created[q]

\* Invocation r has just acquired the lock: it is in its pass and the
\* marker on disk is the one it created.
Acquired(r) == pc[r] = "pass" /\ lock_file /\ lock_owner = r

\* C24: when every invocation that acquires the lock exits through a path
\* that runs the release and every invocation keeps taking its steps, then
\* whenever an invocation is waiting for the lock, an invocation other than
\* the holder of that moment eventually acquires it.
C24_LockProgress ==
  \A p \in Procs \cup {0} :
    []WaitersKeepRunning =>
      ((lock_owner = p /\ \E q \in Procs : pc[q] = "wait")
         ~> (\E r \in Procs \ {p} : Acquired(r)))

\* An invocation that waited and went back to waiting because another one
\* was faster has acquired the lock.
C24_Witness ==
  \E r \in Procs :
    /\ Acquired(r)
    /\ \E q \in Procs \ {r} : pc[q] = "wait"
    /\ \E p \in Procs \ {r} : pc[p] = "exited" /\ created[p]

(***************************************************************************)
(* Claims on the extraction sub-model, continued                           *)
(***************************************************************************)

\* The directory holds a fingerprint file.
HasFingerprintFile(dir) == \E t \in dir : t.name = <<"dynamic-plugin-config.hash">>

\* C25: from the removal of the previous directory until the extraction
\* has returned, and after it has failed, the plugin directory holds no
\* fingerprint file: the file is there only once install_plugin has written
\* it after a completed install.
C25_FingerprintAfterInstall ==
  x_state \in {"members", "fatal"} => ~HasFingerprintFile(x_dir)

(***************************************************************************)
(* Claims on the configuration sub-model, order of the plugins             *)
(***************************************************************************)

Reverse(s) == [i \in 1..Len(s) |-> s[Len(s) + 1 - i]]

\* The loop of main, lines 643-648, over the fragments from the i-th on.
RECURSIVE MergeAll(_, _, _)
MergeAll(frags, i, global) ==
  IF i > Len(frags) THEN MergeOk(global)
  ELSE LET r == IF Truthy(frags[i]) THEN maybeMergeConfig(frags[i], global)
                ELSE MergeOk(global)
       IN IF r.ok THEN MergeAll(frags, i + 1, r.node) ELSE r

\* Two fragments do not conflict: every key path they share has a mapping
\* on both sides or the same leaf value on both sides.  A pluginConfig that
\* is not a mapping is not merged and conflicts with nothing.
ConflictFree(f, g) ==
  (IsDict(f) /\ IsDict(g)) =>
    \A a \in NodesOf(f), b \in NodesOf(g) :
      a.path = b.path => (a.t = b.t /\ a.v = b.v)

\* C26: for fragments that do not conflict with each other, merging them
\* into the seeded accumulator in the opposite order gives the same outcome:
\* the same dumped document when the loop ends, a fatal error when it ends
\* fatally (a fragment conflicts with the seed).
C26_MergeOrderIndependent ==
  (/\ c_state \in {"done", "fatal"}
   /\ \A j, k \in DOMAIN c_frags : ConflictFree(c_frags[j], c_frags[k])) =>
    LET r == MergeAll(Reverse(c_frags), 1, SeedConfig)
    IN IF c_state = "done"
       THEN r.ok /\ yaml_safe_dump(r.node) = yaml_safe_dump(globalConfig)
       ELSE ~r.ok

\* Two different mappings that share a key path and do not conflict have
\* been merged, and the accumulator of the opposite order holds its keys in
\* another order.
C26_Witness ==
  /\ c_state = "done" /\ Len(c_frags) = 2
  /\ IsDict(c_frags[1]) /\ IsDict(c_frags[2]) /\ c_frags[1] # c_frags[2]
  /\ ConflictFree(c_frags[1], c_frags[2])
  /\ \E a \in NodesOf(c_frags[1]), b \in NodesOf(c_frags[2]) :
       a.path = b.path /\ a.path # <<>>
  /\ MergeAll(Reverse(c_frags), 1, SeedConfig).node # globalConfig
====
